---- MODULE Spec2Model ----
(***************************************************************************)
(* A model of the constraint-generating modules of GridPath:               *)
(*   - the gen_ret_bin capacity type (binary retirement),                  *)
(*   - the storage_generic operational type,                               *)
(*   - the dr (load shifting) operational type.                            *)
(* Each module declares sets, parameters and variables, builds its         *)
(* constraint components by calling a rule once per index, and the         *)
(* resulting constraint system is handed to an external solver, which      *)
(* returns any assignment of the variables that satisfies every generated  *)
(* constraint.  Real-valued quantities are drawn from integer grids and    *)
(* efficiencies are rationals <<numerator, denominator>>; equalities and   *)
(* inequalities are compared after cross-multiplication, so no rounding    *)
(* takes place.                                                            *)
(***************************************************************************)
EXTENDS Integers, FiniteSets, Sequences, TLC

VARIABLES
    module,                              \* which module this run assembles
    status,                              \* "declared", "built", "error", "solved"
    \* ---- temporal index ----
    PERIODS,                             \* the ordered set of periods
    \* ---- gen_ret_bin ----
    GEN_RET_BIN_OPR_PRDS,                \* set of <<project, period>>
    gen_ret_bin_capacity_mw,             \* param over GEN_RET_BIN_OPR_PRDS
    gen_ret_bin_fixed_cost_per_mw_yr,    \* param over GEN_RET_BIN_OPR_PRDS
    GenRetBin_Retire_Forever_Constraint, \* constraint component: index -> rule result
    GenRetBin_Retire,                    \* solved values of the binary variable
    \* ---- temporal index: timepoints ----
    horizon,                             \* timepoint -> horizon
    boundary,                            \* horizon -> "circular" or "linear"
    period,                              \* timepoint -> period
    number_of_hours_in_timepoint,        \* timepoint -> duration
    \* ---- capacity of operational projects ----
    Capacity_MW,                         \* <<project, period>> -> MW
    Energy_Capacity_MWh,                 \* <<project, period>> -> MWh
    \* ---- storage_generic ----
    storage_generic_charging_efficiency,    \* project -> <<num, den>>
    storage_generic_discharging_efficiency, \* project -> <<num, den>>
    headroom_variables,                  \* project -> list of upward reserve variable names
    footroom_variables,                  \* project -> list of downward reserve variable names
    Storage_Max_Discharge_Constraint,
    Storage_Generic_Max_Charge_Constraint,
    Storage_Generic_Max_Headroom_Power_Constraint,
    Storage_Generic_Max_Footroom_Power_Constraint,
    Storage_Generic_Max_Headroom_Energy_Constraint,
    Storage_Generic_Max_Footroom_Energy_Constraint,
    Storage_Generic_Energy_Tracking_Constraint,
    Max_Energy_in_Generic_Storage_Constraint,
    Generic_Storage_Discharge_MW,        \* values fixed by the solver
    Generic_Storage_Charge_MW,
    Starting_Energy_in_Generic_Storage_MWh,
    Reserve_Provision_MW,                \* <<reserve variable name, project, timepoint>> -> MW
    \* ---- dr ----
    DR_Max_Shift_Up_Constraint,
    DR_Max_Shift_Down_Constraint,
    DR_Energy_Balance_Constraint,
    DR_Energy_Budget_Constraint,
    DR_Shift_Up_MW,                      \* values fixed by the solver
    DR_Shift_Down_MW,
    DR_Power_Delta,                      \* <<project, timepoint>> -> result of power_delta_rule
    \* ---- dynamic components (the object d) ----
    total_cost_components,               \* list of expression names
    local_capacity_balance_provision_components,
    capacity_type_operational_period_sets,
    registrations,                       \* history: every append, in call order
    runs,                                \* history: module -> number of add_model_components calls
    assembled_after,                     \* history: number of appends made before construction
    \* ---- objective and local capacity balance ----
    Total_Cost,                          \* the constructed objective
    LOCAL_CAPACITY_ZONE_PERIODS_WITH_REQUIREMENT,
    local_capacity_requirement_mw,
    provision,                           \* <<component, zone, period>> -> value of a provision component
    Total_Local_Capacity_from_All_Sources_Expression_MW,
    Local_Capacity_Constraint,
    Local_Capacity_Shortage_MW,          \* values fixed by the solver
    \* ---- input files and data portal of gen_ret_bin ----
    projects_tab,                        \* project -> capacity_type
    specified_generation_period_params_tab,  \* the rows of the file, in file order
    data_portal,                         \* what load_module_specific_data has stored
    \* ---- errors ----
    FUEL_PROJECTS,
    raised,                              \* the exception a call ended with
    \* ---- a second run of the same process ----
    other_d,                             \* the object d of the other run: its lists by name,
                                         \* and the number of calls made with it
    other_registrations                  \* history: every append to a list of other_d

retVars == <<PERIODS, GEN_RET_BIN_OPR_PRDS, gen_ret_bin_capacity_mw,
             gen_ret_bin_fixed_cost_per_mw_yr, GenRetBin_Retire_Forever_Constraint,
             GenRetBin_Retire>>

tmpVars == <<horizon, boundary, period, number_of_hours_in_timepoint>>

capVars == <<Capacity_MW, Energy_Capacity_MWh>>

stoParams == <<storage_generic_charging_efficiency, storage_generic_discharging_efficiency,
               headroom_variables, footroom_variables>>

stoCons == <<Storage_Max_Discharge_Constraint, Storage_Generic_Max_Charge_Constraint,
             Storage_Generic_Max_Headroom_Power_Constraint,
             Storage_Generic_Max_Footroom_Power_Constraint,
             Storage_Generic_Max_Headroom_Energy_Constraint,
             Storage_Generic_Max_Footroom_Energy_Constraint,
             Storage_Generic_Energy_Tracking_Constraint,
             Max_Energy_in_Generic_Storage_Constraint>>

stoVals == <<Generic_Storage_Discharge_MW, Generic_Storage_Charge_MW,
             Starting_Energy_in_Generic_Storage_MWh, Reserve_Provision_MW>>

stoVars == <<stoParams, stoCons, stoVals>>

drCons == <<DR_Max_Shift_Up_Constraint, DR_Max_Shift_Down_Constraint,
            DR_Energy_Balance_Constraint, DR_Energy_Budget_Constraint>>

drVals == <<DR_Shift_Up_MW, DR_Shift_Down_MW>>

drExprs == <<DR_Power_Delta>>

drVars == <<drCons, drVals, drExprs>>

regVars == <<total_cost_components, local_capacity_balance_provision_components,
             capacity_type_operational_period_sets, registrations, runs, assembled_after>>

lcParams == <<LOCAL_CAPACITY_ZONE_PERIODS_WITH_REQUIREMENT, local_capacity_requirement_mw,
              provision>>

asmCons == <<Total_Cost, Total_Local_Capacity_from_All_Sources_Expression_MW,
             Local_Capacity_Constraint>>

asmVars == <<regVars, lcParams, asmCons, Local_Capacity_Shortage_MW>>

ioVars == <<projects_tab, specified_generation_period_params_tab, data_portal,
            FUEL_PROJECTS, raised>>

otherVars == <<other_d, other_registrations>>

vars == <<module, status, retVars, tmpVars, capVars, stoVars, drVars, asmVars, ioVars,
          otherVars>>

\* what a run that assembles one module leaves alone
notRetVars == <<tmpVars, capVars, stoVars, drVars, asmVars, ioVars, otherVars>>

notStoVars == <<retVars, drVars, asmVars, ioVars, otherVars>>

notDrVars == <<retVars, stoVars, asmVars, ioVars, otherVars>>

notAsmVars == <<retVars, tmpVars, capVars, stoVars, drVars, ioVars, otherVars>>

----------------------------------------------------------------------------
(* Bounds and input grids *)

MaxPeriod == 3

AllPeriods == 1..MaxPeriod

RetProjects == {"g1", "g2"}

\* rows of specified_generation_period_params.tab:
\* <<specified_capacity_mw, fixed_cost_per_mw_yr>>
PeriodParamRows == {<<100, 10>>, <<0, 10>>, <<50, 0>>}

SetMin(S) == CHOOSE x \in S : \A y \in S : x <= y

SetMax(S) == CHOOSE x \in S : \A y \in S : x >= y

Empty == <<>>

----------------------------------------------------------------------------
(* Temporal index: periods *)

first_period == SetMin(PERIODS)

\* the period immediately before p in the ordering of PERIODS
prev_period(p) == SetMax({q \in PERIODS : q < p})

----------------------------------------------------------------------------
(* gen_ret_bin: sets and derived params *)

GEN_RET_BIN == {gp[1] : gp \in GEN_RET_BIN_OPR_PRDS}

OPR_PRDS_BY_GEN_RET_BIN(prj) ==
    {gp[2] : gp \in {x \in GEN_RET_BIN_OPR_PRDS : x[1] = prj}}

gen_ret_bin_first_period(g) == SetMin(OPR_PRDS_BY_GEN_RET_BIN(g))

\* The rule of GenRetBin_Retire_Forever_Constraint.  A generated constraint
\* is recorded as ge |-> <<g, p>>, than |-> <<g, q>>, meaning
\* GenRetBin_Retire[g, p] >= GenRetBin_Retire[g, q].
retire_forever_rule_no_project_skip(g, p) ==
    IF p = first_period
    THEN [kind |-> "Skip"]
    ELSE [kind |-> "Constraint", ge |-> <<g, p>>, than |-> <<g, prev_period(p)>>]

retire_forever_rule_reversed(g, p) ==
    IF p = first_period
    THEN [kind |-> "Skip"]
    ELSE IF p = gen_ret_bin_first_period(g)
         THEN [kind |-> "Skip"]
         ELSE [kind |-> "Constraint", ge |-> <<g, prev_period(p)>>, than |-> <<g, p>>]

retire_forever_rule(g, p) ==
    IF p = first_period
    THEN [kind |-> "Skip"]
    ELSE IF p = gen_ret_bin_first_period(g)
         THEN [kind |-> "Skip"]
         ELSE [kind |-> "Constraint", ge |-> <<g, p>>, than |-> <<g, prev_period(p)>>]

\* Indexing GenRetBin_Retire outside GEN_RET_BIN_OPR_PRDS raises KeyError
RetireIndexError(c) ==
    c.kind = "Constraint" /\ (c.ge \notin GEN_RET_BIN_OPR_PRDS
                              \/ c.than \notin GEN_RET_BIN_OPR_PRDS)

\* An assignment r of the binary variable satisfies a rule result
RetireHolds(c, r) == c.kind = "Constraint" => r[c.ge] >= r[c.than]

capacity_rule_ignores_retirement(g, p) == gen_ret_bin_capacity_mw[<<g, p>>]

capacity_rule(g, p) ==
    gen_ret_bin_capacity_mw[<<g, p>>] * (1 - GenRetBin_Retire[<<g, p>>])

capacity_cost_rule_ignores_retirement(g, p) ==
    gen_ret_bin_fixed_cost_per_mw_yr[<<g, p>>] * gen_ret_bin_capacity_mw[<<g, p>>]

capacity_cost_rule(g, p) ==
    gen_ret_bin_fixed_cost_per_mw_yr[<<g, p>>]
        * gen_ret_bin_capacity_mw[<<g, p>>]
        * (1 - GenRetBin_Retire[<<g, p>>])

new_capacity_rule(g, p) == 0

\* a run that assembles another module declares none of the following
NoTimepoints ==
    /\ horizon = Empty /\ boundary = Empty /\ period = Empty
    /\ number_of_hours_in_timepoint = Empty
    /\ Capacity_MW = Empty /\ Energy_Capacity_MWh = Empty

NoStorageComponents ==
    /\ Storage_Max_Discharge_Constraint = Empty
    /\ Storage_Generic_Max_Charge_Constraint = Empty
    /\ Storage_Generic_Max_Headroom_Power_Constraint = Empty
    /\ Storage_Generic_Max_Footroom_Power_Constraint = Empty
    /\ Storage_Generic_Max_Headroom_Energy_Constraint = Empty
    /\ Storage_Generic_Max_Footroom_Energy_Constraint = Empty
    /\ Storage_Generic_Energy_Tracking_Constraint = Empty
    /\ Max_Energy_in_Generic_Storage_Constraint = Empty
    /\ Generic_Storage_Discharge_MW = Empty
    /\ Generic_Storage_Charge_MW = Empty
    /\ Starting_Energy_in_Generic_Storage_MWh = Empty
    /\ Reserve_Provision_MW = Empty

NoStorage ==
    /\ storage_generic_charging_efficiency = Empty
    /\ storage_generic_discharging_efficiency = Empty
    /\ headroom_variables = Empty
    /\ footroom_variables = Empty
    /\ NoStorageComponents

NoDR ==
    /\ DR_Max_Shift_Up_Constraint = Empty
    /\ DR_Max_Shift_Down_Constraint = Empty
    /\ DR_Energy_Balance_Constraint = Empty
    /\ DR_Energy_Budget_Constraint = Empty
    /\ DR_Shift_Up_MW = Empty
    /\ DR_Shift_Down_MW = Empty
    /\ DR_Power_Delta = Empty

NoOtherRun ==
    /\ other_d = Empty
    /\ other_registrations = Empty

NoAssembly ==
    /\ total_cost_components = Empty
    /\ local_capacity_balance_provision_components = Empty
    /\ capacity_type_operational_period_sets = Empty
    /\ registrations = Empty
    /\ runs = Empty
    /\ assembled_after = 0
    /\ Total_Cost = Empty
    /\ LOCAL_CAPACITY_ZONE_PERIODS_WITH_REQUIREMENT = {}
    /\ local_capacity_requirement_mw = Empty
    /\ provision = Empty
    /\ Total_Local_Capacity_from_All_Sources_Expression_MW = Empty
    /\ Local_Capacity_Constraint = Empty
    /\ Local_Capacity_Shortage_MW = Empty
    /\ NoOtherRun

NoInputFiles ==
    /\ projects_tab = Empty
    /\ specified_generation_period_params_tab = Empty
    /\ data_portal = Empty
    /\ FUEL_PROJECTS = {}
    /\ raised = Empty

NoRetirement ==
    /\ GEN_RET_BIN_OPR_PRDS = {}
    /\ gen_ret_bin_capacity_mw = Empty
    /\ gen_ret_bin_fixed_cost_per_mw_yr = Empty
    /\ GenRetBin_Retire_Forever_Constraint = Empty
    /\ GenRetBin_Retire = Empty

----------------------------------------------------------------------------
(* gen_ret_bin: assembly *)

InitRet ==
    /\ module = "gen_ret_bin"
    /\ status = "declared"
    /\ PERIODS \in (SUBSET AllPeriods) \ {{}}
    /\ GEN_RET_BIN_OPR_PRDS \in SUBSET (RetProjects \X PERIODS)
    /\ \E rows \in [GEN_RET_BIN_OPR_PRDS -> PeriodParamRows] :
          /\ gen_ret_bin_capacity_mw = [gp \in GEN_RET_BIN_OPR_PRDS |-> rows[gp][1]]
          /\ gen_ret_bin_fixed_cost_per_mw_yr = [gp \in GEN_RET_BIN_OPR_PRDS |-> rows[gp][2]]
    /\ GenRetBin_Retire_Forever_Constraint = Empty
    /\ GenRetBin_Retire = Empty
    /\ NoTimepoints
    /\ NoStorage
    /\ NoDR
    /\ NoAssembly
    /\ NoInputFiles

\* Constraint(m.GEN_RET_BIN_OPR_PRDS, rule=retire_forever_rule)
BuildRetireForever ==
    /\ module = "gen_ret_bin"
    /\ status = "declared"
    /\ LET built == [gp \in GEN_RET_BIN_OPR_PRDS |-> retire_forever_rule(gp[1], gp[2])]
       IN  IF \E gp \in GEN_RET_BIN_OPR_PRDS : RetireIndexError(built[gp])
           THEN /\ status' = "error"
                /\ GenRetBin_Retire_Forever_Constraint' = Empty
           ELSE /\ status' = "built"
                /\ GenRetBin_Retire_Forever_Constraint' = built
    /\ UNCHANGED <<module, PERIODS, GEN_RET_BIN_OPR_PRDS, gen_ret_bin_capacity_mw,
                   gen_ret_bin_fixed_cost_per_mw_yr, GenRetBin_Retire>>
    /\ UNCHANGED notRetVars

\* The solver returns any binary assignment satisfying every generated constraint
SolveRet ==
    /\ module = "gen_ret_bin"
    /\ status = "built"
    /\ \E r \in [GEN_RET_BIN_OPR_PRDS -> {0, 1}] :
          /\ \A gp \in GEN_RET_BIN_OPR_PRDS :
                RetireHolds(GenRetBin_Retire_Forever_Constraint[gp], r)
          /\ GenRetBin_Retire' = r
    /\ status' = "solved"
    /\ UNCHANGED <<module, PERIODS, GEN_RET_BIN_OPR_PRDS, gen_ret_bin_capacity_mw,
                   gen_ret_bin_fixed_cost_per_mw_yr, GenRetBin_Retire_Forever_Constraint>>
    /\ UNCHANGED notRetVars

NextRet == BuildRetireForever \/ SolveRet

SpecRet == InitRet /\ [][NextRet]_vars

RetSolved == module = "gen_ret_bin" /\ status = "solved"

----------------------------------------------------------------------------
(* Claims about gen_ret_bin *)

\* C1: in every solution of a built gen_ret_bin model, once
\* GenRetBin_Retire[g, k] = 1 for an operational period k of g, it is 1 in
\* every later operational period of g, whatever the operational periods are.
C1_RetireForever ==
    RetSolved =>
        \A g \in GEN_RET_BIN :
            \A k \in OPR_PRDS_BY_GEN_RET_BIN(g), k2 \in OPR_PRDS_BY_GEN_RET_BIN(g) :
                (k < k2 /\ GenRetBin_Retire[<<g, k>>] = 1)
                    => GenRetBin_Retire[<<g, k2>>] = 1

\* one project whose operational periods do not start at the global first
\* period and that retires after its first operational period, and one
\* project with three operational periods retired from a middle one on
C1_Witness ==
    /\ RetSolved
    /\ \E g \in GEN_RET_BIN :
          /\ gen_ret_bin_first_period(g) # first_period
          /\ Cardinality(OPR_PRDS_BY_GEN_RET_BIN(g)) >= 2
          /\ GenRetBin_Retire[<<g, gen_ret_bin_first_period(g)>>] = 0
          /\ GenRetBin_Retire[<<g, SetMax(OPR_PRDS_BY_GEN_RET_BIN(g))>>] = 1
    /\ \E g \in GEN_RET_BIN :
          /\ Cardinality(OPR_PRDS_BY_GEN_RET_BIN(g)) >= 3
          /\ \E k \in OPR_PRDS_BY_GEN_RET_BIN(g) :
                /\ k # gen_ret_bin_first_period(g)
                /\ k # SetMax(OPR_PRDS_BY_GEN_RET_BIN(g))
                /\ GenRetBin_Retire[<<g, k>>] = 1

\* the expected result of the rule, stated without the rule's own helpers
IsFirstOprPeriod(g, p) == ~ \E gq \in GEN_RET_BIN_OPR_PRDS : gq[1] = g /\ gq[2] < p

IsGlobalFirstPeriod(p) == ~ \E q \in PERIODS : q < p

IsPrevPeriod(q, p) == q \in PERIODS /\ q < p /\ ~ \E x \in PERIODS : q < x /\ x < p

RuleAsClaimed(c, g, p) ==
    IF IsGlobalFirstPeriod(p) \/ IsFirstOprPeriod(g, p)
    THEN c.kind = "Skip"
    ELSE /\ c.kind = "Constraint"
         /\ c.ge = <<g, p>>
         /\ c.than[1] = g
         /\ IsPrevPeriod(c.than[2], p)

C3_CapacityStepFunction ==
    RetSolved =>
        \A gp \in GEN_RET_BIN_OPR_PRDS :
            LET g == gp[1]
                p == gp[2]
            IN  /\ GenRetBin_Retire[gp] = 0 => capacity_rule(g, p) = gen_ret_bin_capacity_mw[gp]
                /\ GenRetBin_Retire[gp] = 1 =>
                      \A k2 \in OPR_PRDS_BY_GEN_RET_BIN(g) :
                          k2 >= p => capacity_rule(g, k2) = 0

\* a project with positive specified capacity in three operational periods,
\* online in the first and retired from the second on
C3_Witness ==
    /\ RetSolved
    /\ \E g \in GEN_RET_BIN :
          /\ Cardinality(OPR_PRDS_BY_GEN_RET_BIN(g)) >= 3
          /\ \A p \in OPR_PRDS_BY_GEN_RET_BIN(g) : gen_ret_bin_capacity_mw[<<g, p>>] > 0
          /\ capacity_rule(g, gen_ret_bin_first_period(g)) > 0
          /\ \A p \in OPR_PRDS_BY_GEN_RET_BIN(g) :
                p # gen_ret_bin_first_period(g) => GenRetBin_Retire[<<g, p>>] = 1

\* the end-to-end scenario: project g has exactly the operational periods
\* p1 < p2, capacity 100 and fixed cost 10 in both, retired in p2 only
C4_Scenario(g, p1, p2) ==
    /\ OPR_PRDS_BY_GEN_RET_BIN(g) = {p1, p2}
    /\ p1 < p2
    /\ \A p \in {p1, p2} : /\ gen_ret_bin_capacity_mw[<<g, p>>] = 100
                           /\ gen_ret_bin_fixed_cost_per_mw_yr[<<g, p>>] = 10
    /\ GenRetBin_Retire[<<g, p1>>] = 0
    /\ GenRetBin_Retire[<<g, p2>>] = 1

\* C4: in the two-period scenario capacity_rule gives [100, 0] and
\* capacity_cost_rule gives [1000, 0]; in general capacity_cost_rule is the
\* fixed cost times the specified capacity while the project is not retired,
\* zero once it is retired, and never negative.
C4_CapacityCost ==
    RetSolved =>
        /\ \A g \in GEN_RET_BIN : \A p1 \in PERIODS, p2 \in PERIODS :
              C4_Scenario(g, p1, p2) =>
                  /\ <<capacity_rule(g, p1), capacity_rule(g, p2)>> = <<100, 0>>
                  /\ <<capacity_cost_rule(g, p1), capacity_cost_rule(g, p2)>> = <<1000, 0>>
        /\ \A gp \in GEN_RET_BIN_OPR_PRDS :
              /\ capacity_cost_rule(gp[1], gp[2]) >= 0
              /\ GenRetBin_Retire[gp] = 1 => capacity_cost_rule(gp[1], gp[2]) = 0
              /\ GenRetBin_Retire[gp] = 0 =>
                    capacity_cost_rule(gp[1], gp[2])
                        = gen_ret_bin_fixed_cost_per_mw_yr[gp] * gen_ret_bin_capacity_mw[gp]

C4_Witness ==
    /\ RetSolved
    /\ \E g \in GEN_RET_BIN : \E p1 \in PERIODS, p2 \in PERIODS : C4_Scenario(g, p1, p2)

----------------------------------------------------------------------------
(* Temporal index: timepoints and horizons *)

NumTmps == 4

TIMEPOINTS == 1..NumTmps

\* the value of previous_timepoint where there is none: not a timepoint
None == 0

\* candidate partitions of the timepoints into horizons: one horizon, or a
\* first horizon of two timepoints followed by a second one
HorizonMaps ==
    {[t \in TIMEPOINTS |-> 1], [t \in TIMEPOINTS |-> IF t <= 2 THEN 1 ELSE 2]}

\* candidate durations: all one hour, or alternating one and two hours
HoursMaps ==
    {[t \in TIMEPOINTS |-> 1], [t \in TIMEPOINTS |-> IF t % 2 = 1 THEN 1 ELSE 2]}

HORIZONS == {horizon[t] : t \in DOMAIN horizon}

TIMEPOINTS_ON_HORIZON(h) == {t \in DOMAIN horizon : horizon[t] = h}

first_horizon_timepoint(h) == SetMin(TIMEPOINTS_ON_HORIZON(h))

last_horizon_timepoint(h) == SetMax(TIMEPOINTS_ON_HORIZON(h))

\* the timepoint before tmp on its horizon; the last timepoint of the horizon
\* for the first one when the boundary is circular, none when it is linear
previous_timepoint(tmp) ==
    IF tmp = first_horizon_timepoint(horizon[tmp])
    THEN IF boundary[horizon[tmp]] = "circular"
         THEN last_horizon_timepoint(horizon[tmp])
         ELSE None
    ELSE SetMax({t \in TIMEPOINTS_ON_HORIZON(horizon[tmp]) : t < tmp})

InitTimepoints ==
    /\ horizon \in HorizonMaps
    /\ boundary \in [{horizon[t] : t \in TIMEPOINTS} -> {"circular", "linear"}]
    /\ period = horizon
    /\ PERIODS = {period[t] : t \in TIMEPOINTS}
    /\ number_of_hours_in_timepoint \in HoursMaps

----------------------------------------------------------------------------
(* storage_generic: sets, rules *)

STORAGE_GENERIC_PROJECTS == {"s1"}

STORAGE_GENERIC_PROJECT_OPERATIONAL_TIMEPOINTS ==
    STORAGE_GENERIC_PROJECTS \X (DOMAIN horizon)

\* candidate values of the real-valued quantities
ChargeGrid == {-10, 0, 10, 20}

DischargeGrid == {-9, 0, 9, 10, 18}

EnergyGrid == {-10, 0, 8, 9, 10, 18, 20, 30}

\* candidate <<charging, discharging>> efficiencies, each <<numerator, denominator>>
EfficiencyRows == {<<<<1, 1>>, <<1, 1>>>>, <<<<9, 10>>, <<9, 10>>>>, <<<<1, 2>>, <<1, 1>>>>}

\* candidate <<Capacity_MW, Energy_Capacity_MWh>> by period: two or three
\* hours of storage in the first period, one hour afterwards
CapacityMaps ==
    {[p \in AllPeriods |-> IF p = 1 THEN <<10, 20>> ELSE <<10, 10>>],
     [p \in AllPeriods |-> IF p = 1 THEN <<10, 30>> ELSE <<10, 10>>]}

NonNegativeReals(x) == x >= 0

\* A generated upper bound is recorded as var |-> variable name, at |-> its
\* index, cap |-> parameter name, of |-> its index, meaning var[at] <= cap[of].
max_discharge_rule(s, tmp) ==
    [kind |-> "Constraint",
     var |-> "Generic_Storage_Discharge_MW", at |-> <<s, tmp>>,
     cap |-> "Capacity_MW", of |-> <<s, period[tmp]>>]

max_charge_rule_bounds_discharge(s, tmp) ==
    [kind |-> "Constraint",
     var |-> "Generic_Storage_Discharge_MW", at |-> <<s, tmp>>,
     cap |-> "Capacity_MW", of |-> <<s, period[tmp]>>]

max_charge_rule(s, tmp) ==
    [kind |-> "Constraint",
     var |-> "Generic_Storage_Charge_MW", at |-> <<s, tmp>>,
     cap |-> "Capacity_MW", of |-> <<s, period[tmp]>>]

\* A generated reserve constraint is recorded by the list of reserve variable
\* names it sums (one term per list entry), the index at which the reserve,
\* charge, discharge and state-of-charge variables are taken, the timepoint
\* whose duration it uses, and the capacity parameter it refers to.
\*   sum(reserves)[at] <= cap[of] - Discharge[at] + Charge[at]
max_headroom_power_rule(s, tmp) ==
    [kind |-> "Constraint", reserves |-> headroom_variables[s], at |-> <<s, tmp>>,
     cap |-> "Capacity_MW", of |-> <<s, period[tmp]>>]

\*   sum(reserves)[at] <= Discharge[at] + cap[of] - Charge[at]
max_footroom_power_rule_sums_headroom(s, tmp) ==
    [kind |-> "Constraint", reserves |-> headroom_variables[s], at |-> <<s, tmp>>,
     cap |-> "Capacity_MW", of |-> <<s, period[tmp]>>]

max_footroom_power_rule(s, tmp) ==
    [kind |-> "Constraint", reserves |-> footroom_variables[s], at |-> <<s, tmp>>,
     cap |-> "Capacity_MW", of |-> <<s, period[tmp]>>]

\*   sum(reserves)[at] * hours[hrs] / discharging_efficiency
\*     <= Starting_Energy[at] + Charge[at] * hours[hrs] * charging_efficiency
\*        - Discharge[at] * hours[hrs] / discharging_efficiency
max_headroom_energy_rule(s, tmp) ==
    [kind |-> "Constraint", reserves |-> headroom_variables[s], at |-> <<s, tmp>>,
     hrs |-> tmp]

\*   sum(reserves)[at] * hours[hrs] * charging_efficiency
\*     <= cap[of] - Starting_Energy[at] - Charge[at] * hours[hrs] * charging_efficiency
\*        + Discharge[at] * hours[hrs] / discharging_efficiency
max_footroom_energy_rule(s, tmp) ==
    [kind |-> "Constraint", reserves |-> headroom_variables[s], at |-> <<s, tmp>>,
     hrs |-> tmp, cap |-> "Capacity_MW", of |-> <<s, period[tmp]>>]

\* A generated energy tracking constraint is recorded by the indices of its
\* terms, meaning
\*   Starting_Energy[lhs] == Starting_Energy[soc]
\*       + Charge[chg] * hours[chg_hrs] * charging_efficiency[lhs project]
\*       - Discharge[dis] * hours[dis_hrs] / discharging_efficiency[lhs project]
energy_tracking_rule_hours_of_tmp(s, tmp) ==
    IF tmp = first_horizon_timepoint(horizon[tmp]) /\ boundary[horizon[tmp]] = "linear"
    THEN [kind |-> "Skip"]
    ELSE [kind |-> "Constraint",
          lhs |-> <<s, tmp>>,
          soc |-> <<s, previous_timepoint(tmp)>>,
          chg |-> <<s, previous_timepoint(tmp)>>,
          chg_hrs |-> tmp,
          dis |-> <<s, previous_timepoint(tmp)>>,
          dis_hrs |-> tmp]

energy_tracking_rule_never_wraps(s, tmp) ==
    IF tmp = first_horizon_timepoint(horizon[tmp])
    THEN [kind |-> "Skip"]
    ELSE [kind |-> "Constraint",
          lhs |-> <<s, tmp>>,
          soc |-> <<s, previous_timepoint(tmp)>>,
          chg |-> <<s, previous_timepoint(tmp)>>,
          chg_hrs |-> previous_timepoint(tmp),
          dis |-> <<s, previous_timepoint(tmp)>>,
          dis_hrs |-> previous_timepoint(tmp)]

energy_tracking_rule(s, tmp) ==
    IF tmp = first_horizon_timepoint(horizon[tmp]) /\ boundary[horizon[tmp]] = "linear"
    THEN [kind |-> "Skip"]
    ELSE [kind |-> "Constraint",
          lhs |-> <<s, tmp>>,
          soc |-> <<s, previous_timepoint(tmp)>>,
          chg |-> <<s, previous_timepoint(tmp)>>,
          chg_hrs |-> previous_timepoint(tmp),
          dis |-> <<s, previous_timepoint(tmp)>>,
          dis_hrs |-> previous_timepoint(tmp)]

max_energy_in_storage_rule_first_period(s, tmp) ==
    [kind |-> "Constraint",
     var |-> "Starting_Energy_in_Generic_Storage_MWh", at |-> <<s, tmp>>,
     cap |-> "Energy_Capacity_MWh", of |-> <<s, first_period>>]

max_energy_in_storage_rule(s, tmp) ==
    [kind |-> "Constraint",
     var |-> "Starting_Energy_in_Generic_Storage_MWh", at |-> <<s, tmp>>,
     cap |-> "Energy_Capacity_MWh", of |-> <<s, period[tmp]>>]

\* power provided to the system: discharge minus charge
storage_generic_power_provision_rule(s, tmp) ==
    Generic_Storage_Discharge_MW[<<s, tmp>>] - Generic_Storage_Charge_MW[<<s, tmp>>]

\* the variable indices a rule result refers to
StoRefs(c) ==
    IF c.kind = "Skip" THEN {}
    ELSE IF "lhs" \in DOMAIN c THEN {c.lhs, c.soc, c.chg, c.dis}
    ELSE {c.at}

\* indexing a variable outside its index set raises KeyError
StoIndexError(c) ==
    \E i \in StoRefs(c) : i \notin STORAGE_GENERIC_PROJECT_OPERATIONAL_TIMEPOINTS

----------------------------------------------------------------------------
(* storage_generic: meaning of the generated constraints *)

StoParam(name) ==
    CASE name = "Capacity_MW" -> Capacity_MW
      [] name = "Energy_Capacity_MWh" -> Energy_Capacity_MWh

\* var[at] <= cap[of], for the values e, chg, dis fixed so far
BoundHolds(c, e, chg, dis) ==
    LET v == CASE c.var = "Starting_Energy_in_Generic_Storage_MWh" -> e
               [] c.var = "Generic_Storage_Charge_MW" -> chg
               [] c.var = "Generic_Storage_Discharge_MW" -> dis
    IN  c.at \in DOMAIN v => v[c.at] <= StoParam(c.cap)[c.of]

\* the energy tracking equality, multiplied through by the denominator of
\* the charging efficiency and the numerator of the discharging efficiency
TrackingHolds(c, e, chg, dis) ==
    (c.kind = "Constraint" /\ {c.lhs, c.soc} \subseteq DOMAIN e
        /\ c.chg \in DOMAIN chg /\ c.dis \in DOMAIN dis) =>
    LET s  == c.lhs[1]
        ce == storage_generic_charging_efficiency[s]
        de == storage_generic_discharging_efficiency[s]
    IN  e[c.lhs] * ce[2] * de[1]
          = e[c.soc] * ce[2] * de[1]
            + chg[c.chg] * number_of_hours_in_timepoint[c.chg_hrs] * ce[1] * de[1]
            - dis[c.dis] * number_of_hours_in_timepoint[c.dis_hrs] * de[2] * ce[2]

\* sum(getattr(mod, c)[s, tmp] for c in names): one term per list entry
RECURSIVE ReserveSum(_, _, _)
ReserveSum(names, at, res) ==
    IF names = <<>> THEN 0
    ELSE res[<<Head(names), at[1], at[2]>>] + ReserveSum(Tail(names), at, res)

\* every variable of a reserve constraint is fixed
ReserveFixed(c, e, chg, dis, res) ==
    /\ c.at \in DOMAIN e /\ c.at \in DOMAIN chg /\ c.at \in DOMAIN dis
    /\ \A k \in DOMAIN c.reserves : <<c.reserves[k], c.at[1], c.at[2]>> \in DOMAIN res

HeadroomPowerHolds(c, e, chg, dis, res) ==
    ReserveFixed(c, e, chg, dis, res) =>
        ReserveSum(c.reserves, c.at, res) <= StoParam(c.cap)[c.of] - dis[c.at] + chg[c.at]

FootroomPowerHolds(c, e, chg, dis, res) ==
    ReserveFixed(c, e, chg, dis, res) =>
        ReserveSum(c.reserves, c.at, res) <= dis[c.at] + StoParam(c.cap)[c.of] - chg[c.at]

\* the energy at the end of the timepoint c.hrs for the values at index c.at,
\* times the denominator of the charging efficiency and the numerator of the
\* discharging efficiency
EndEnergyScaled(c, e, chg, dis) ==
    LET ce == storage_generic_charging_efficiency[c.at[1]]
        de == storage_generic_discharging_efficiency[c.at[1]]
        h  == number_of_hours_in_timepoint[c.hrs]
    IN  e[c.at] * ce[2] * de[1] + chg[c.at] * h * ce[1] * de[1]
          - dis[c.at] * h * de[2] * ce[2]

HeadroomEnergyHolds(c, e, chg, dis, res) ==
    ReserveFixed(c, e, chg, dis, res) =>
        LET ce == storage_generic_charging_efficiency[c.at[1]]
            de == storage_generic_discharging_efficiency[c.at[1]]
            h  == number_of_hours_in_timepoint[c.hrs]
        IN  ReserveSum(c.reserves, c.at, res) * h * de[2] * ce[2]
              <= EndEnergyScaled(c, e, chg, dis)

FootroomEnergyHolds(c, e, chg, dis, res) ==
    ReserveFixed(c, e, chg, dis, res) =>
        LET ce == storage_generic_charging_efficiency[c.at[1]]
            de == storage_generic_discharging_efficiency[c.at[1]]
            h  == number_of_hours_in_timepoint[c.hrs]
        IN  ReserveSum(c.reserves, c.at, res) * h * ce[1] * de[1]
              <= StoParam(c.cap)[c.of] * ce[2] * de[1] - EndEnergyScaled(c, e, chg, dis)

\* the values fixed so far violate no variable domain and no constraint all
\* of whose variables are fixed
StoSatisfied(e, chg, dis, res) ==
    /\ \A i \in DOMAIN e : NonNegativeReals(e[i])
    /\ \A i \in DOMAIN chg : NonNegativeReals(chg[i])
    /\ \A i \in DOMAIN dis : NonNegativeReals(dis[i])
    /\ \A i \in DOMAIN res : NonNegativeReals(res[i])
    /\ \A i \in DOMAIN Storage_Generic_Energy_Tracking_Constraint :
          TrackingHolds(Storage_Generic_Energy_Tracking_Constraint[i], e, chg, dis)
    /\ \A i \in DOMAIN Max_Energy_in_Generic_Storage_Constraint :
          BoundHolds(Max_Energy_in_Generic_Storage_Constraint[i], e, chg, dis)
    /\ \A i \in DOMAIN Storage_Generic_Max_Charge_Constraint :
          BoundHolds(Storage_Generic_Max_Charge_Constraint[i], e, chg, dis)
    /\ \A i \in DOMAIN Storage_Max_Discharge_Constraint :
          BoundHolds(Storage_Max_Discharge_Constraint[i], e, chg, dis)
    /\ \A i \in DOMAIN Storage_Generic_Max_Headroom_Power_Constraint :
          HeadroomPowerHolds(Storage_Generic_Max_Headroom_Power_Constraint[i], e, chg, dis, res)
    /\ \A i \in DOMAIN Storage_Generic_Max_Footroom_Power_Constraint :
          FootroomPowerHolds(Storage_Generic_Max_Footroom_Power_Constraint[i], e, chg, dis, res)
    /\ \A i \in DOMAIN Storage_Generic_Max_Headroom_Energy_Constraint :
          HeadroomEnergyHolds(Storage_Generic_Max_Headroom_Energy_Constraint[i], e, chg, dis, res)
    /\ \A i \in DOMAIN Storage_Generic_Max_Footroom_Energy_Constraint :
          FootroomEnergyHolds(Storage_Generic_Max_Footroom_Energy_Constraint[i], e, chg, dis, res)

----------------------------------------------------------------------------
(* storage_generic: assembly *)

\* candidate reserve registrations of a project, <<headroom list, footroom list>>:
\* no reserve module has registered a variable for the project.  Registered
\* reserve variables are non-negative, so they only tighten the four reserve
\* constraints: every assignment feasible with reserves is feasible here.
ReserveRegistrations == {<<<<>>, <<>>>>}

\* candidate values of a reserve provision variable
ReserveGrid == {-5, 0, 5, 10}

InitSto ==
    /\ module = "storage_generic"
    /\ status = "declared"
    /\ InitTimepoints
    /\ NoRetirement
    /\ NoDR
    /\ NoAssembly
    /\ NoInputFiles
    /\ \E rows \in CapacityMaps :
          /\ Capacity_MW = [sp \in STORAGE_GENERIC_PROJECTS \X PERIODS |-> rows[sp[2]][1]]
          /\ Energy_Capacity_MWh = [sp \in STORAGE_GENERIC_PROJECTS \X PERIODS |-> rows[sp[2]][2]]
    /\ \E rows \in [STORAGE_GENERIC_PROJECTS -> EfficiencyRows] :
          /\ storage_generic_charging_efficiency = [s \in DOMAIN rows |-> rows[s][1]]
          /\ storage_generic_discharging_efficiency = [s \in DOMAIN rows |-> rows[s][2]]
    /\ \E rows \in [STORAGE_GENERIC_PROJECTS -> ReserveRegistrations] :
          /\ headroom_variables = [s \in DOMAIN rows |-> rows[s][1]]
          /\ footroom_variables = [s \in DOMAIN rows |-> rows[s][2]]
    /\ NoStorageComponents

StoIdx == STORAGE_GENERIC_PROJECT_OPERATIONAL_TIMEPOINTS

StoDeclared == module = "storage_generic" /\ status = "declared"

\* Constraint(m.STORAGE_GENERIC_PROJECT_OPERATIONAL_TIMEPOINTS, rule=max_discharge_rule)
BuildMaxDischarge ==
    /\ StoDeclared
    /\ Storage_Max_Discharge_Constraint = Empty
    /\ LET built == [i \in StoIdx |-> max_discharge_rule(i[1], i[2])]
       IN  IF \E i \in StoIdx : StoIndexError(built[i])
           THEN status' = "error" /\ UNCHANGED Storage_Max_Discharge_Constraint
           ELSE status' = status /\ Storage_Max_Discharge_Constraint' = built
    /\ UNCHANGED <<module, notStoVars, tmpVars, capVars, stoParams, stoVals,
                   Storage_Generic_Max_Charge_Constraint,
                   Storage_Generic_Max_Headroom_Power_Constraint,
                   Storage_Generic_Max_Footroom_Power_Constraint,
                   Storage_Generic_Max_Headroom_Energy_Constraint,
                   Storage_Generic_Max_Footroom_Energy_Constraint,
                   Storage_Generic_Energy_Tracking_Constraint,
                   Max_Energy_in_Generic_Storage_Constraint>>

\* Constraint(m.STORAGE_GENERIC_PROJECT_OPERATIONAL_TIMEPOINTS, rule=max_charge_rule)
BuildMaxCharge ==
    /\ StoDeclared
    /\ Storage_Max_Discharge_Constraint # Empty
    /\ Storage_Generic_Max_Charge_Constraint = Empty
    /\ LET built == [i \in StoIdx |-> max_charge_rule(i[1], i[2])]
       IN  IF \E i \in StoIdx : StoIndexError(built[i])
           THEN status' = "error" /\ UNCHANGED Storage_Generic_Max_Charge_Constraint
           ELSE status' = status /\ Storage_Generic_Max_Charge_Constraint' = built
    /\ UNCHANGED <<module, notStoVars, tmpVars, capVars, stoParams, stoVals,
                   Storage_Max_Discharge_Constraint,
                   Storage_Generic_Max_Headroom_Power_Constraint,
                   Storage_Generic_Max_Footroom_Power_Constraint,
                   Storage_Generic_Max_Headroom_Energy_Constraint,
                   Storage_Generic_Max_Footroom_Energy_Constraint,
                   Storage_Generic_Energy_Tracking_Constraint,
                   Max_Energy_in_Generic_Storage_Constraint>>

\* Constraint(m.STORAGE_GENERIC_PROJECT_OPERATIONAL_TIMEPOINTS, rule=max_headroom_power_rule)
BuildMaxHeadroomPower ==
    /\ StoDeclared
    /\ Storage_Generic_Max_Charge_Constraint # Empty
    /\ Storage_Generic_Max_Headroom_Power_Constraint = Empty
    /\ LET built == [i \in StoIdx |-> max_headroom_power_rule(i[1], i[2])]
       IN  IF \E i \in StoIdx : StoIndexError(built[i])
           THEN status' = "error" /\ UNCHANGED Storage_Generic_Max_Headroom_Power_Constraint
           ELSE status' = status /\ Storage_Generic_Max_Headroom_Power_Constraint' = built
    /\ UNCHANGED <<module, notStoVars, tmpVars, capVars, stoParams, stoVals,
                   Storage_Max_Discharge_Constraint,
                   Storage_Generic_Max_Charge_Constraint,
                   Storage_Generic_Max_Footroom_Power_Constraint,
                   Storage_Generic_Max_Headroom_Energy_Constraint,
                   Storage_Generic_Max_Footroom_Energy_Constraint,
                   Storage_Generic_Energy_Tracking_Constraint,
                   Max_Energy_in_Generic_Storage_Constraint>>

\* Constraint(m.STORAGE_GENERIC_PROJECT_OPERATIONAL_TIMEPOINTS, rule=max_footroom_power_rule)
BuildMaxFootroomPower ==
    /\ StoDeclared
    /\ Storage_Generic_Max_Headroom_Power_Constraint # Empty
    /\ Storage_Generic_Max_Footroom_Power_Constraint = Empty
    /\ LET built == [i \in StoIdx |-> max_footroom_power_rule(i[1], i[2])]
       IN  IF \E i \in StoIdx : StoIndexError(built[i])
           THEN status' = "error" /\ UNCHANGED Storage_Generic_Max_Footroom_Power_Constraint
           ELSE status' = status /\ Storage_Generic_Max_Footroom_Power_Constraint' = built
    /\ UNCHANGED <<module, notStoVars, tmpVars, capVars, stoParams, stoVals,
                   Storage_Max_Discharge_Constraint,
                   Storage_Generic_Max_Charge_Constraint,
                   Storage_Generic_Max_Headroom_Power_Constraint,
                   Storage_Generic_Max_Headroom_Energy_Constraint,
                   Storage_Generic_Max_Footroom_Energy_Constraint,
                   Storage_Generic_Energy_Tracking_Constraint,
                   Max_Energy_in_Generic_Storage_Constraint>>

\* Constraint(m.STORAGE_GENERIC_PROJECT_OPERATIONAL_TIMEPOINTS, rule=max_headroom_energy_rule)
BuildMaxHeadroomEnergy ==
    /\ StoDeclared
    /\ Storage_Generic_Max_Footroom_Power_Constraint # Empty
    /\ Storage_Generic_Max_Headroom_Energy_Constraint = Empty
    /\ LET built == [i \in StoIdx |-> max_headroom_energy_rule(i[1], i[2])]
       IN  IF \E i \in StoIdx : StoIndexError(built[i])
           THEN status' = "error" /\ UNCHANGED Storage_Generic_Max_Headroom_Energy_Constraint
           ELSE status' = status /\ Storage_Generic_Max_Headroom_Energy_Constraint' = built
    /\ UNCHANGED <<module, notStoVars, tmpVars, capVars, stoParams, stoVals,
                   Storage_Max_Discharge_Constraint,
                   Storage_Generic_Max_Charge_Constraint,
                   Storage_Generic_Max_Headroom_Power_Constraint,
                   Storage_Generic_Max_Footroom_Power_Constraint,
                   Storage_Generic_Max_Footroom_Energy_Constraint,
                   Storage_Generic_Energy_Tracking_Constraint,
                   Max_Energy_in_Generic_Storage_Constraint>>

\* Constraint(m.STORAGE_GENERIC_PROJECT_OPERATIONAL_TIMEPOINTS, rule=max_footroom_energy_rule)
BuildMaxFootroomEnergy ==
    /\ StoDeclared
    /\ Storage_Generic_Max_Headroom_Energy_Constraint # Empty
    /\ Storage_Generic_Max_Footroom_Energy_Constraint = Empty
    /\ LET built == [i \in StoIdx |-> max_footroom_energy_rule(i[1], i[2])]
       IN  IF \E i \in StoIdx : StoIndexError(built[i])
           THEN status' = "error" /\ UNCHANGED Storage_Generic_Max_Footroom_Energy_Constraint
           ELSE status' = status /\ Storage_Generic_Max_Footroom_Energy_Constraint' = built
    /\ UNCHANGED <<module, notStoVars, tmpVars, capVars, stoParams, stoVals,
                   Storage_Max_Discharge_Constraint,
                   Storage_Generic_Max_Charge_Constraint,
                   Storage_Generic_Max_Headroom_Power_Constraint,
                   Storage_Generic_Max_Footroom_Power_Constraint,
                   Storage_Generic_Max_Headroom_Energy_Constraint,
                   Storage_Generic_Energy_Tracking_Constraint,
                   Max_Energy_in_Generic_Storage_Constraint>>

\* Constraint(m.STORAGE_GENERIC_PROJECT_OPERATIONAL_TIMEPOINTS, rule=energy_tracking_rule)
BuildEnergyTracking ==
    /\ StoDeclared
    /\ Storage_Generic_Max_Footroom_Energy_Constraint # Empty
    /\ Storage_Generic_Energy_Tracking_Constraint = Empty
    /\ LET built == [i \in StoIdx |-> energy_tracking_rule(i[1], i[2])]
       IN  IF \E i \in StoIdx : StoIndexError(built[i])
           THEN status' = "error" /\ UNCHANGED Storage_Generic_Energy_Tracking_Constraint
           ELSE status' = status /\ Storage_Generic_Energy_Tracking_Constraint' = built
    /\ UNCHANGED <<module, notStoVars, tmpVars, capVars, stoParams, stoVals,
                   Storage_Max_Discharge_Constraint,
                   Storage_Generic_Max_Charge_Constraint,
                   Storage_Generic_Max_Headroom_Power_Constraint,
                   Storage_Generic_Max_Footroom_Power_Constraint,
                   Storage_Generic_Max_Headroom_Energy_Constraint,
                   Storage_Generic_Max_Footroom_Energy_Constraint,
                   Max_Energy_in_Generic_Storage_Constraint>>

\* Constraint(m.STORAGE_GENERIC_PROJECT_OPERATIONAL_TIMEPOINTS, rule=max_energy_in_storage_rule)
BuildMaxEnergy ==
    /\ StoDeclared
    /\ Storage_Generic_Energy_Tracking_Constraint # Empty
    /\ Max_Energy_in_Generic_Storage_Constraint = Empty
    /\ LET built == [i \in StoIdx |-> max_energy_in_storage_rule(i[1], i[2])]
       IN  IF \E i \in StoIdx : StoIndexError(built[i])
           THEN status' = "error" /\ UNCHANGED Max_Energy_in_Generic_Storage_Constraint
           ELSE status' = "built" /\ Max_Energy_in_Generic_Storage_Constraint' = built
    /\ UNCHANGED <<module, notStoVars, tmpVars, capVars, stoParams, stoVals,
                   Storage_Max_Discharge_Constraint,
                   Storage_Generic_Max_Charge_Constraint,
                   Storage_Generic_Max_Headroom_Power_Constraint,
                   Storage_Generic_Max_Footroom_Power_Constraint,
                   Storage_Generic_Max_Headroom_Energy_Constraint,
                   Storage_Generic_Max_Footroom_Energy_Constraint,
                   Storage_Generic_Energy_Tracking_Constraint>>

\* the reserve variables registered for project s
ReserveNames(s) ==
    {headroom_variables[s][k] : k \in DOMAIN headroom_variables[s]}
        \cup {footroom_variables[s][k] : k \in DOMAIN footroom_variables[s]}

\* The solver fixes the variables of one index at a time, in timepoint order,
\* keeping only values that violate no domain and no constraint over fixed
\* variables; it has solved the model when every index is fixed.
SolveSto ==
    /\ module = "storage_generic"
    /\ status = "built"
    /\ LET open == StoIdx \ DOMAIN Starting_Energy_in_Generic_Storage_MWh
           i == CHOOSE x \in open : \A y \in open : x[2] <= y[2]
       IN  \E e \in EnergyGrid :
             LET e2 == (i :> e) @@ Starting_Energy_in_Generic_Storage_MWh
             IN  /\ StoSatisfied(e2, Generic_Storage_Charge_MW, Generic_Storage_Discharge_MW,
                                 Reserve_Provision_MW)
                 /\ \E c \in ChargeGrid, d \in DischargeGrid :
                       \E r \in [{<<n, i[1], i[2]>> : n \in ReserveNames(i[1])} -> ReserveGrid] :
                       LET c2 == (i :> c) @@ Generic_Storage_Charge_MW
                           d2 == (i :> d) @@ Generic_Storage_Discharge_MW
                           r2 == r @@ Reserve_Provision_MW
                       IN  /\ StoSatisfied(e2, c2, d2, r2)
                           /\ Starting_Energy_in_Generic_Storage_MWh' = e2
                           /\ Generic_Storage_Charge_MW' = c2
                           /\ Generic_Storage_Discharge_MW' = d2
                           /\ Reserve_Provision_MW' = r2
                           /\ status' = IF DOMAIN e2 = StoIdx THEN "solved" ELSE "built"
    /\ UNCHANGED <<module, notStoVars, tmpVars, capVars, stoParams, stoCons>>

NextSto ==
    \/ BuildMaxDischarge
    \/ BuildMaxCharge
    \/ BuildMaxHeadroomPower
    \/ BuildMaxFootroomPower
    \/ BuildMaxHeadroomEnergy
    \/ BuildMaxFootroomEnergy
    \/ BuildEnergyTracking
    \/ BuildMaxEnergy
    \/ SolveSto

SpecSto == InitSto /\ [][NextSto]_vars

StoSolved == module = "storage_generic" /\ status = "solved"

----------------------------------------------------------------------------
(* Claims about storage_generic *)

StoBuilt == module = "storage_generic" /\ status \in {"built", "solved"}

\* the timepoint whose state the recurrence carries into tmp, stated without
\* previous_timepoint: the one just before tmp on its horizon, or the last
\* one of the horizon for its first timepoint
IsCarriedFrom(prev, tmp) ==
    /\ prev \in TIMEPOINTS /\ horizon[prev] = horizon[tmp]
    /\ IF \E t \in TIMEPOINTS : horizon[t] = horizon[tmp] /\ t < tmp
       THEN prev < tmp /\ ~ \E t \in TIMEPOINTS :
                              horizon[t] = horizon[tmp] /\ prev < t /\ t < tmp
       ELSE ~ \E t \in TIMEPOINTS : horizon[t] = horizon[tmp] /\ t > prev

IsFirstOfLinear(tmp) ==
    /\ ~ \E t \in TIMEPOINTS : horizon[t] = horizon[tmp] /\ t < tmp
    /\ boundary[horizon[tmp]] = "linear"

\* soc[tmp] = soc[prev] + charge[prev]*hours[prev]*ce - discharge[prev]*hours[prev]/de
\* on the solved values, in exact arithmetic
Recurrence(s, tmp, prev) ==
    LET ce == storage_generic_charging_efficiency[s]
        de == storage_generic_discharging_efficiency[s]
        h  == number_of_hours_in_timepoint[prev]
    IN  ce[2] * de[1] * (Starting_Energy_in_Generic_Storage_MWh[<<s, tmp>>]
                         - Starting_Energy_in_Generic_Storage_MWh[<<s, prev>>])
          = h * (Generic_Storage_Charge_MW[<<s, prev>>] * ce[1] * de[1]
                 - Generic_Storage_Discharge_MW[<<s, prev>>] * de[2] * ce[2])

\* C5: every energy tracking constraint that is not skipped equates
\* Starting_Energy[s, tmp] with the recurrence whose terms (state of charge,
\* charge, discharge and both durations) are all indexed by the previous
\* timepoint, and every solution satisfies that recurrence.
C5_EnergyTrackingIndexedByPrev ==
    StoBuilt =>
        \A i \in StoIdx :
            LET c == Storage_Generic_Energy_Tracking_Constraint[i]
            IN  c.kind = "Constraint" =>
                  /\ c.lhs = i
                  /\ IsCarriedFrom(c.soc[2], i[2])
                  /\ c.soc[1] = i[1]
                  /\ c.chg = c.soc /\ c.dis = c.soc
                  /\ c.chg_hrs = c.soc[2] /\ c.dis_hrs = c.soc[2]
                  /\ status = "solved" => Recurrence(i[1], i[2], c.soc[2])

\* a solution in which a timepoint follows one of a different duration in
\* which the project charged, and a timepoint follows one in which it discharged
C5_Witness ==
    /\ StoSolved
    /\ \E i \in StoIdx :
          LET c == Storage_Generic_Energy_Tracking_Constraint[i]
          IN  /\ c.kind = "Constraint"
              /\ number_of_hours_in_timepoint[c.chg_hrs] # number_of_hours_in_timepoint[i[2]]
              /\ Generic_Storage_Charge_MW[c.chg] > 0
    /\ \E i \in StoIdx :
          LET c == Storage_Generic_Energy_Tracking_Constraint[i]
          IN  c.kind = "Constraint" /\ Generic_Storage_Discharge_MW[c.dis] > 0

\* the energy tracking constraints of horizon h: on a circular horizon one
\* ties the first timepoint to the last, on a linear horizon none has the
\* first timepoint's state of charge on its left-hand side
HorizonTracking(s, h) ==
    LET first == first_horizon_timepoint(h)
        last  == last_horizon_timepoint(h)
    IN  IF boundary[h] = "circular"
        THEN /\ \E i \in StoIdx :
                   LET c == Storage_Generic_Energy_Tracking_Constraint[i]
                   IN  c.kind = "Constraint" /\ c.lhs = <<s, first>>
                         /\ c.soc = <<s, last>>
             /\ status = "solved" => Recurrence(s, first, last)
        ELSE \A i \in StoIdx :
                LET c == Storage_Generic_Energy_Tracking_Constraint[i]
                IN  c.kind = "Constraint" => c.lhs # <<s, first>>

\* every state of charge within [0, energy capacity] at the first timepoint
\* of horizon h is accepted by the constraints over the variables of that
\* timepoint, for some charge and discharge and no reserve provision
FirstIsFree(s, h) ==
    LET i == <<s, first_horizon_timepoint(h)>>
    IN  \A e \in EnergyGrid :
            (0 <= e /\ e <= Energy_Capacity_MWh[<<s, period[i[2]]>>]) =>
                \E c \in ChargeGrid, d \in DischargeGrid :
                    StoSatisfied(i :> e, i :> c, i :> d,
                                 [k \in {<<n, i[1], i[2]>> : n \in ReserveNames(s)} |-> 0])

\* C6: on a circular horizon the state of charge of the first timepoint is
\* tied by the recurrence to the last timepoint of the same horizon; on a
\* linear horizon no energy tracking constraint has the first timepoint's
\* state of charge on its left-hand side, and that state of charge is
\* constrained only by its bounds: every value between zero and the energy
\* capacity is accepted.
C6_HorizonBoundary ==
    StoBuilt =>
        \A s \in STORAGE_GENERIC_PROJECTS : \A h \in HORIZONS :
            /\ HorizonTracking(s, h)
            /\ boundary[h] = "linear" => FirstIsFree(s, h)

\* the part of C6 about the energy tracking constraints alone
C6_TrackingOnly ==
    StoBuilt =>
        \A s \in STORAGE_GENERIC_PROJECTS : \A h \in HORIZONS : HorizonTracking(s, h)

\* C7: in every solution the state of charge of every operational timepoint
\* lies between zero and the energy capacity of the timepoint's period.
C7_StateOfChargeBounds ==
    StoSolved =>
        \A i \in StoIdx :
            /\ Starting_Energy_in_Generic_Storage_MWh[i] >= 0
            /\ Starting_Energy_in_Generic_Storage_MWh[i]
                 <= Energy_Capacity_MWh[<<i[1], period[i[2]]>>]

\* the end-to-end scenario: one linear horizon of at least four timepoints,
\* both efficiencies 0.9, starting empty, charging up to a later timepoint
C7_Witness ==
    /\ StoSolved
    /\ \E s \in STORAGE_GENERIC_PROJECTS :
          /\ storage_generic_charging_efficiency[s] = <<9, 10>>
          /\ storage_generic_discharging_efficiency[s] = <<9, 10>>
          /\ HORIZONS = {horizon[1]}
          /\ boundary[horizon[1]] = "linear"
          /\ Cardinality(TIMEPOINTS_ON_HORIZON(horizon[1])) >= 4
          /\ Starting_Energy_in_Generic_Storage_MWh[<<s, 1>>] = 0
          /\ \E t \in TIMEPOINTS : Starting_Energy_in_Generic_Storage_MWh[<<s, t>>] > 0
          /\ \E t \in TIMEPOINTS : Generic_Storage_Discharge_MW[<<s, t>>] > 0

\* C8: in every solution charge and discharge each lie between zero and the
\* power capacity of the timepoint's period.
C8_PowerBounds ==
    StoSolved =>
        \A i \in StoIdx :
            /\ Generic_Storage_Charge_MW[i] >= 0
            /\ Generic_Storage_Charge_MW[i] <= Capacity_MW[<<i[1], period[i[2]]>>]
            /\ Generic_Storage_Discharge_MW[i] >= 0
            /\ Generic_Storage_Discharge_MW[i] <= Capacity_MW[<<i[1], period[i[2]]>>]

\* a solution that charges at full power in one timepoint, and charges and
\* discharges in the same timepoint with a sum above the power capacity
C8_Witness ==
    /\ StoSolved
    /\ \E i \in StoIdx :
          /\ Generic_Storage_Charge_MW[i] = Capacity_MW[<<i[1], period[i[2]]>>]
          /\ Generic_Storage_Discharge_MW[i] > 0
          /\ Generic_Storage_Charge_MW[i] + Generic_Storage_Discharge_MW[i]
               > Capacity_MW[<<i[1], period[i[2]]>>]

----------------------------------------------------------------------------
(* dr: sets, rules *)

DR == {"d1"}

\* the operational timepoints of a project are the timepoints of its
\* operational periods, the periods for which it has a capacity
PROJECT_OPERATIONAL_TIMEPOINTS(projects) ==
    {i \in projects \X (DOMAIN horizon) : <<i[1], period[i[2]]>> \in DOMAIN Capacity_MW}

DR_OPR_TMPS == PROJECT_OPERATIONAL_TIMEPOINTS(DR)

DR_OPR_HRZS_every_horizon == DR \X HORIZONS

DR_OPR_HRZS == {<<i[1], horizon[i[2]]>> : i \in PROJECT_OPERATIONAL_TIMEPOINTS(DR)}

\* candidate values of the real-valued quantities
ShiftUpGrid == {-10, 0, 5, 10, 20}

ShiftDownGrid == {-10, 0, 5, 10, 20}

\* sum(f[x] for x in S)
RECURSIVE Sum(_, _)
Sum(f, S) ==
    IF S = {} THEN 0
    ELSE LET x == CHOOSE y \in S : TRUE
         IN  f[x] + Sum(f, S \ {x})

\* DR_Shift_Up_MW[p, tmp] <= Capacity_MW[p, period[tmp]]
max_shift_up_rule(p, tmp) ==
    [kind |-> "Constraint",
     var |-> "DR_Shift_Up_MW", at |-> <<p, tmp>>,
     cap |-> "Capacity_MW", of |-> <<p, period[tmp]>>]

\* DR_Shift_Down_MW[p, tmp] <= Capacity_MW[p, period[tmp]]
max_shift_down_rule(p, tmp) ==
    [kind |-> "Constraint",
     var |-> "DR_Shift_Down_MW", at |-> <<p, tmp>>,
     cap |-> "Capacity_MW", of |-> <<p, period[tmp]>>]

\* A generated balance is recorded by the index sets of its two sums, meaning
\* sum of DR_Shift_Up_MW over up == sum of DR_Shift_Down_MW over down.
energy_balance_rule_all_timepoints(p, h) ==
    [kind |-> "Constraint",
     up   |-> {<<p, tmp>> : tmp \in DOMAIN horizon},
     down |-> {<<p, tmp>> : tmp \in DOMAIN horizon}]

energy_balance_rule(p, h) ==
    [kind |-> "Constraint",
     up   |-> {<<p, tmp>> : tmp \in TIMEPOINTS_ON_HORIZON(h)},
     down |-> {<<p, tmp>> : tmp \in TIMEPOINTS_ON_HORIZON(h)}]

\* A generated budget is recorded by its summed variable, the terms of the
\* sum (variable index and the timepoint whose duration weights it) and the
\* parameter on the right, meaning
\* sum of var[at] * hours[hrs] over terms == cap[of].
energy_budget_rule_shift_down(p, h) ==
    [kind |-> "Constraint",
     var |-> "DR_Shift_Down_MW",
     terms |-> {[at |-> <<p, tmp>>, hrs |-> tmp] : tmp \in TIMEPOINTS_ON_HORIZON(h)},
     cap |-> "Energy_Capacity_MWh",
     of |-> <<p, period[first_horizon_timepoint(h)]>>]

energy_budget_rule(p, h) ==
    [kind |-> "Constraint",
     var |-> "DR_Shift_Up_MW",
     terms |-> {[at |-> <<p, tmp>>, hrs |-> tmp] : tmp \in TIMEPOINTS_ON_HORIZON(h)},
     cap |-> "Energy_Capacity_MWh",
     of |-> <<p, period[first_horizon_timepoint(h)]>>]

\* The result of power_delta_rule is recorded as nothing (the rule falls
\* through without a return value) or as the indices of the expression
\*   (Up[at] - Down[at]) - (Up[prev] - Down[prev])
power_delta_rule_no_branch(p, tmp) ==
    [kind |-> "Expression", at |-> <<p, tmp>>, prev |-> <<p, previous_timepoint(tmp)>>]

power_delta_rule(p, tmp) ==
    IF tmp = first_horizon_timepoint(horizon[tmp]) /\ boundary[horizon[tmp]] = "linear"
    THEN [kind |-> "None"]
    ELSE [kind |-> "Expression", at |-> <<p, tmp>>, prev |-> <<p, previous_timepoint(tmp)>>]

\* power provided to the system: load shifted down minus load shifted up
dr_power_provision_rule_load_added(p, tmp) ==
    DR_Shift_Up_MW[<<p, tmp>>] - DR_Shift_Down_MW[<<p, tmp>>]

dr_power_provision_rule(p, tmp) ==
    DR_Shift_Down_MW[<<p, tmp>>] - DR_Shift_Up_MW[<<p, tmp>>]

\* the variable indices and parameter indices a rule result refers to
DrRefs(c) ==
    IF "up" \in DOMAIN c THEN c.up \cup c.down
    ELSE IF "terms" \in DOMAIN c THEN {t.at : t \in c.terms}
    ELSE IF "prev" \in DOMAIN c THEN {c.at, c.prev}
    ELSE IF "at" \in DOMAIN c THEN {c.at}
    ELSE {}

\* indexing a variable outside DR_OPR_TMPS, or a capacity outside its index
\* set, raises KeyError
DrIndexError(c) ==
    \/ \E i \in DrRefs(c) : i \notin DR_OPR_TMPS
    \/ "of" \in DOMAIN c /\ c.of \notin DOMAIN Capacity_MW

----------------------------------------------------------------------------
(* dr: meaning of the generated constraints *)

DrValue(name, up, down) ==
    CASE name = "DR_Shift_Up_MW" -> up
      [] name = "DR_Shift_Down_MW" -> down

DrParam(name) ==
    CASE name = "Capacity_MW" -> Capacity_MW
      [] name = "Energy_Capacity_MWh" -> Energy_Capacity_MWh

DrBoundHolds(c, up, down) ==
    LET v == DrValue(c.var, up, down)
    IN  c.at \in DOMAIN v => v[c.at] <= DrParam(c.cap)[c.of]

DrBalanceHolds(c, up, down) ==
    (c.up \subseteq DOMAIN up /\ c.down \subseteq DOMAIN down) =>
        Sum(up, c.up) = Sum(down, c.down)

DrBudgetHolds(c, up, down) ==
    LET v == DrValue(c.var, up, down)
    IN  {t.at : t \in c.terms} \subseteq DOMAIN v =>
            Sum([t \in c.terms |-> v[t.at] * number_of_hours_in_timepoint[t.hrs]], c.terms)
                = DrParam(c.cap)[c.of]

\* the values fixed so far violate no variable domain and no constraint all
\* of whose variables are fixed
DrSatisfied(up, down) ==
    /\ \A i \in DOMAIN up : NonNegativeReals(up[i])
    /\ \A i \in DOMAIN down : NonNegativeReals(down[i])
    /\ \A i \in DOMAIN DR_Max_Shift_Up_Constraint :
          DrBoundHolds(DR_Max_Shift_Up_Constraint[i], up, down)
    /\ \A i \in DOMAIN DR_Max_Shift_Down_Constraint :
          DrBoundHolds(DR_Max_Shift_Down_Constraint[i], up, down)
    /\ \A i \in DOMAIN DR_Energy_Balance_Constraint :
          DrBalanceHolds(DR_Energy_Balance_Constraint[i], up, down)
    /\ \A i \in DOMAIN DR_Energy_Budget_Constraint :
          DrBudgetHolds(DR_Energy_Budget_Constraint[i], up, down)

----------------------------------------------------------------------------
(* dr: assembly *)

InitDR ==
    /\ module = "dr"
    /\ status = "declared"
    /\ InitTimepoints
    /\ NoRetirement
    /\ NoStorage
    /\ NoAssembly
    /\ NoInputFiles
    /\ \E rows \in CapacityMaps :
          /\ Capacity_MW = [pp \in DR \X PERIODS |-> rows[pp[2]][1]]
          /\ Energy_Capacity_MWh = [pp \in DR \X PERIODS |-> rows[pp[2]][2]]
    /\ NoDR

DrDeclared == module = "dr" /\ status = "declared"

\* Constraint(m.DR_OPR_TMPS, rule=max_shift_up_rule)
BuildMaxShiftUp ==
    /\ DrDeclared
    /\ DR_Max_Shift_Up_Constraint = Empty
    /\ LET built == [i \in DR_OPR_TMPS |-> max_shift_up_rule(i[1], i[2])]
       IN  IF \E i \in DR_OPR_TMPS : DrIndexError(built[i])
           THEN status' = "error" /\ UNCHANGED DR_Max_Shift_Up_Constraint
           ELSE status' = status /\ DR_Max_Shift_Up_Constraint' = built
    /\ UNCHANGED <<module, notDrVars, tmpVars, capVars, drVals, drExprs,
                   DR_Max_Shift_Down_Constraint, DR_Energy_Balance_Constraint,
                   DR_Energy_Budget_Constraint>>

\* Constraint(m.DR_OPR_TMPS, rule=max_shift_down_rule)
BuildMaxShiftDown ==
    /\ DrDeclared
    /\ DR_Max_Shift_Up_Constraint # Empty
    /\ DR_Max_Shift_Down_Constraint = Empty
    /\ LET built == [i \in DR_OPR_TMPS |-> max_shift_down_rule(i[1], i[2])]
       IN  IF \E i \in DR_OPR_TMPS : DrIndexError(built[i])
           THEN status' = "error" /\ UNCHANGED DR_Max_Shift_Down_Constraint
           ELSE status' = status /\ DR_Max_Shift_Down_Constraint' = built
    /\ UNCHANGED <<module, notDrVars, tmpVars, capVars, drVals, drExprs,
                   DR_Max_Shift_Up_Constraint, DR_Energy_Balance_Constraint,
                   DR_Energy_Budget_Constraint>>

\* Constraint(m.DR_OPR_HRZS, rule=energy_balance_rule)
BuildEnergyBalance ==
    /\ DrDeclared
    /\ DR_Max_Shift_Down_Constraint # Empty
    /\ DR_Energy_Balance_Constraint = Empty
    /\ LET built == [i \in DR_OPR_HRZS |-> energy_balance_rule(i[1], i[2])]
       IN  IF \E i \in DR_OPR_HRZS : DrIndexError(built[i])
           THEN status' = "error" /\ UNCHANGED DR_Energy_Balance_Constraint
           ELSE status' = status /\ DR_Energy_Balance_Constraint' = built
    /\ UNCHANGED <<module, notDrVars, tmpVars, capVars, drVals, drExprs,
                   DR_Max_Shift_Up_Constraint, DR_Max_Shift_Down_Constraint,
                   DR_Energy_Budget_Constraint>>

\* Constraint(m.DR_OPR_HRZS, rule=energy_budget_rule)
BuildEnergyBudget ==
    /\ DrDeclared
    /\ DR_Energy_Balance_Constraint # Empty
    /\ DR_Energy_Budget_Constraint = Empty
    /\ LET built == [i \in DR_OPR_HRZS |-> energy_budget_rule(i[1], i[2])]
       IN  IF \E i \in DR_OPR_HRZS : DrIndexError(built[i])
           THEN status' = "error" /\ UNCHANGED DR_Energy_Budget_Constraint
           ELSE status' = "built" /\ DR_Energy_Budget_Constraint' = built
    /\ UNCHANGED <<module, notDrVars, tmpVars, capVars, drVals, drExprs,
                   DR_Max_Shift_Up_Constraint, DR_Max_Shift_Down_Constraint,
                   DR_Energy_Balance_Constraint>>

\* The operations aggregator asks the operational type for the change in
\* power output of every project and timepoint: power_delta_rule(mod, p, tmp).
EvalPowerDelta ==
    /\ module = "dr"
    /\ status = "built"
    /\ DR_Power_Delta = Empty
    /\ LET built == [i \in DR_OPR_TMPS |-> power_delta_rule(i[1], i[2])]
       IN  IF \E i \in DR_OPR_TMPS : DrIndexError(built[i])
           THEN status' = "error" /\ UNCHANGED DR_Power_Delta
           ELSE status' = status /\ DR_Power_Delta' = built
    /\ UNCHANGED <<module, notDrVars, tmpVars, capVars, drCons, drVals>>

\* The solver fixes the two variables of one index at a time, in timepoint
\* order, keeping only values that violate no domain and no constraint over
\* fixed variables; it has solved the model when every index is fixed.
SolveDR ==
    /\ module = "dr"
    /\ status = "built"
    /\ DR_Power_Delta # Empty
    /\ LET open == DR_OPR_TMPS \ DOMAIN DR_Shift_Up_MW
           i == CHOOSE x \in open : \A y \in open : x[2] <= y[2]
       IN  \E u \in ShiftUpGrid, d \in ShiftDownGrid :
             LET u2 == (i :> u) @@ DR_Shift_Up_MW
                 d2 == (i :> d) @@ DR_Shift_Down_MW
             IN  /\ DrSatisfied(u2, d2)
                 /\ DR_Shift_Up_MW' = u2
                 /\ DR_Shift_Down_MW' = d2
                 /\ status' = IF DOMAIN u2 = DR_OPR_TMPS THEN "solved" ELSE "built"
    /\ UNCHANGED <<module, notDrVars, tmpVars, capVars, drCons, drExprs>>

NextDR ==
    \/ BuildMaxShiftUp
    \/ BuildMaxShiftDown
    \/ BuildEnergyBalance
    \/ BuildEnergyBudget
    \/ EvalPowerDelta
    \/ SolveDR

SpecDR == InitDR /\ [][NextDR]_vars

DrSolved == module = "dr" /\ status = "solved"

----------------------------------------------------------------------------
(* Claims about dr *)

DrBuilt == module = "dr" /\ status \in {"built", "solved"}

\* sum of v[<<p, tmp>>] * w[tmp] over the timepoints of T in increasing order
RECURSIVE WeightedTotal(_, _, _, _)
WeightedTotal(v, w, p, T) ==
    IF T = {} THEN 0
    ELSE LET t == SetMin(T)
         IN  v[<<p, t>>] * w[t] + WeightedTotal(v, w, p, T \ {t})

Unweighted == [t \in TIMEPOINTS |-> 1]

TmpsOf(h) == {t \in TIMEPOINTS : horizon[t] = h}

\* C9: in every solution, for every dr project and each of its horizons, the
\* load shifted up summed over the horizon's timepoints equals the load
\* shifted down summed over the same timepoints.
C9_ShiftBalance ==
    DrSolved =>
        \A ph \in DR_OPR_HRZS :
            WeightedTotal(DR_Shift_Up_MW, Unweighted, ph[1], TmpsOf(ph[2]))
                = WeightedTotal(DR_Shift_Down_MW, Unweighted, ph[1], TmpsOf(ph[2]))

\* a solution on two horizons, each with load shifted from one timepoint to
\* another
C9_Witness ==
    /\ DrSolved
    /\ Cardinality(HORIZONS) = 2
    /\ \A ph \in DR_OPR_HRZS :
          \E t \in TmpsOf(ph[2]) :
              DR_Shift_Up_MW[<<ph[1], t>>] > DR_Shift_Down_MW[<<ph[1], t>>]

\* C10: in every solution, for every dr project and each of its horizons,
\* the load shifted up weighted by the timepoint durations sums over the
\* horizon to Energy_Capacity_MWh of the project in the period of the
\* horizon's first timepoint, and the generated budget constraint has that
\* parameter as its right-hand side.
C10_ShiftBudget ==
    DrBuilt =>
        \A ph \in DR_OPR_HRZS :
            LET c == DR_Energy_Budget_Constraint[ph]
                first == SetMin(TmpsOf(ph[2]))
            IN  /\ c.kind = "Constraint"
                /\ c.cap = "Energy_Capacity_MWh"
                /\ c.of = <<ph[1], period[first]>>
                /\ status = "solved" =>
                      WeightedTotal(DR_Shift_Up_MW, number_of_hours_in_timepoint,
                                    ph[1], TmpsOf(ph[2]))
                          = Energy_Capacity_MWh[<<ph[1], period[first]>>]

\* a solution with timepoints of different durations on one horizon and load
\* shifted up in a two-hour timepoint
C10_Witness ==
    /\ DrSolved
    /\ \E ph \in DR_OPR_HRZS :
          /\ \E t \in TmpsOf(ph[2]) :
                /\ number_of_hours_in_timepoint[t] = 2
                /\ DR_Shift_Up_MW[<<ph[1], t>>] > 0
          /\ \E t \in TmpsOf(ph[2]) :
                /\ number_of_hours_in_timepoint[t] = 1
                /\ DR_Shift_Up_MW[<<ph[1], t>>] > 0

\* C11: in every solution, for every dr project and each of its horizons,
\* the energy shifted up equals the energy shifted down: the load shifted up
\* minus the load shifted down, weighted by the timepoint durations, sums to
\* zero over the horizon, whatever the durations are.
C11_ZeroNetEnergy ==
    DrSolved =>
        \A ph \in DR_OPR_HRZS :
            WeightedTotal(DR_Shift_Up_MW, number_of_hours_in_timepoint, ph[1], TmpsOf(ph[2]))
                = WeightedTotal(DR_Shift_Down_MW, number_of_hours_in_timepoint,
                                ph[1], TmpsOf(ph[2]))

\* the same on horizons whose timepoints all have the same duration
C11_UniformDurations ==
    DrSolved =>
        \A ph \in DR_OPR_HRZS :
            (\A t, u \in TmpsOf(ph[2]) :
                 number_of_hours_in_timepoint[t] = number_of_hours_in_timepoint[u]) =>
            WeightedTotal(DR_Shift_Up_MW, number_of_hours_in_timepoint, ph[1], TmpsOf(ph[2]))
                = WeightedTotal(DR_Shift_Down_MW, number_of_hours_in_timepoint,
                                ph[1], TmpsOf(ph[2]))

----------------------------------------------------------------------------
(* The operational types together: a run assembles one of them *)

InitOps == InitSto \/ InitDR

NextOps == NextSto \/ NextDR

SpecOps == InitOps /\ [][NextOps]_vars

----------------------------------------------------------------------------
(* Claims about the operational-type methods *)

\* v lies in [-cap, cap] and is negative exactly when load exceeds supply
SignedWithin(v, cap, load, supply) ==
    /\ v >= 0 - cap
    /\ v <= cap
    /\ (v < 0) <=> (load > supply)

\* C12: in every solution the power provision of a dr project is the load
\* shifted down minus the load shifted up, that of a storage_generic project
\* is discharge minus charge, and in both cases it lies between minus and
\* plus Capacity_MW of the timepoint's period and is negative exactly when
\* the project is a net load.
C12_SignedPowerProvision ==
    /\ DrSolved =>
          \A i \in DR_OPR_TMPS :
              /\ dr_power_provision_rule(i[1], i[2]) + DR_Shift_Up_MW[i] = DR_Shift_Down_MW[i]
              /\ SignedWithin(dr_power_provision_rule(i[1], i[2]),
                              Capacity_MW[<<i[1], period[i[2]]>>],
                              DR_Shift_Up_MW[i], DR_Shift_Down_MW[i])
    /\ StoSolved =>
          \A i \in StoIdx :
              /\ storage_generic_power_provision_rule(i[1], i[2]) + Generic_Storage_Charge_MW[i]
                    = Generic_Storage_Discharge_MW[i]
              /\ SignedWithin(storage_generic_power_provision_rule(i[1], i[2]),
                              Capacity_MW[<<i[1], period[i[2]]>>],
                              Generic_Storage_Charge_MW[i], Generic_Storage_Discharge_MW[i])

\* a dr solution with a timepoint of net load at full capacity and one of
\* net supply
C12_Witness ==
    /\ DrSolved
    /\ \E i \in DR_OPR_TMPS :
          dr_power_provision_rule(i[1], i[2]) = 0 - Capacity_MW[<<i[1], period[i[2]]>>]
    /\ \E i \in DR_OPR_TMPS : dr_power_provision_rule(i[1], i[2]) > 0

\* a storage solution with a timepoint of net load at full capacity and one
\* of net supply
C12_WitnessStorage ==
    /\ StoSolved
    /\ \E i \in StoIdx :
          storage_generic_power_provision_rule(i[1], i[2])
              = 0 - Capacity_MW[<<i[1], period[i[2]]>>]
    /\ \E i \in StoIdx : storage_generic_power_provision_rule(i[1], i[2]) > 0

\* C13: the energy tracking rule of storage_generic and the power delta
\* rule of dr yield nothing exactly at the first timepoint of a linear
\* horizon; at every other timepoint they use the previous timepoint, which
\* is a timepoint of the same project's index set, and construction never
\* fails.
C13_BranchOnBoundary ==
    /\ status # "error"
    /\ (module = "storage_generic" /\ Storage_Generic_Energy_Tracking_Constraint # Empty) =>
          \A i \in StoIdx :
              LET c == Storage_Generic_Energy_Tracking_Constraint[i]
              IN  IF IsFirstOfLinear(i[2])
                  THEN c.kind = "Skip" /\ StoRefs(c) = {}
                  ELSE /\ c.kind = "Constraint"
                       /\ previous_timepoint(i[2]) \in TIMEPOINTS
                       /\ c.soc = <<i[1], previous_timepoint(i[2])>>
                       /\ StoRefs(c) \subseteq StoIdx
    /\ (module = "dr" /\ DR_Power_Delta # Empty) =>
          \A i \in DR_OPR_TMPS :
              LET c == DR_Power_Delta[i]
              IN  IF IsFirstOfLinear(i[2])
                  THEN c.kind = "None" /\ DrRefs(c) = {}
                  ELSE /\ c.kind = "Expression"
                       /\ previous_timepoint(i[2]) \in TIMEPOINTS
                       /\ c.prev = <<i[1], previous_timepoint(i[2])>>
                       /\ DrRefs(c) \subseteq DR_OPR_TMPS

\* a dr run with a linear and a circular horizon whose power deltas are built
C13_Witness ==
    /\ module = "dr"
    /\ DR_Power_Delta # Empty
    /\ \E i \in DR_OPR_TMPS : DR_Power_Delta[i].kind = "None"
    /\ \E i \in DR_OPR_TMPS :
          /\ boundary[horizon[i[2]]] = "circular"
          /\ i[2] = first_horizon_timepoint(horizon[i[2]])
          /\ DR_Power_Delta[i].kind = "Expression"

\* a storage_generic run with a linear and a circular horizon whose energy
\* tracking constraints are built
C13_WitnessStorage ==
    /\ module = "storage_generic"
    /\ Storage_Generic_Energy_Tracking_Constraint # Empty
    /\ \E i \in StoIdx : Storage_Generic_Energy_Tracking_Constraint[i].kind = "Skip"
    /\ \E i \in StoIdx :
          /\ boundary[horizon[i[2]]] = "circular"
          /\ i[2] = first_horizon_timepoint(horizon[i[2]])
          /\ Storage_Generic_Energy_Tracking_Constraint[i].kind = "Constraint"

----------------------------------------------------------------------------
(* Dynamic components: the lists of the object d passed to every module *)

\* bound: calls of add_model_components in one process
MaxCalls == 5

\* the modules of this model, and "provision" for the modules outside it
\* that contribute to the local capacity balance
Modules ==
    {"min_total_cost", "frequency_response", "gen_ret_bin", "local_capacity_balance",
     "provision"}

\* expressions that modules outside this model contribute to the local
\* capacity balance
ProvisionComponents == {"Local_Capacity_Contribution_MW", "Local_Capacity_Imports_MW"}

\* list.append(member)
append(list, member) == list \o <<member>>

\* the appends of one add_model_components call, in statement order
RECURSIVE AppendAll(_, _)
AppendAll(list, members) ==
    IF members = <<>> THEN list
    ELSE AppendAll(append(list, Head(members)), Tail(members))

\* for c in list: the members in index order
resolve_reversed(list) == [k \in 1..Len(list) |-> list[Len(list) + 1 - k]]

resolve(list) == [k \in 1..Len(list) |-> list[k]]

\* the history entries of the appends of members to the list called name
Registered(by, name, members) ==
    [k \in 1..Len(members) |-> [by |-> by, list |-> name, member |-> members[k]]]

\* calls made with the d of another run of the same process
OtherCalls == IF other_d = Empty THEN 0 ELSE other_d.calls

RECURSIVE Calls(_)
Calls(mods) ==
    IF mods = {} THEN 0
    ELSE LET mod == CHOOSE x \in mods : TRUE
         IN  runs[mod] + Calls(mods \ {mod})

\* a module may be called: the run has not handed the model to the solver
\* and the bound on calls is not reached
Callable ==
    /\ module = "assembly"
    /\ status \in {"declared", "built"}
    /\ Calls(Modules) + OtherCalls < MaxCalls

Ran(mod) == [runs EXCEPT ![mod] = @ + 1]

----------------------------------------------------------------------------
(* min_total_cost, frequency_response, gen_ret_bin, local_capacity_balance:
   add_model_components *)

\* d.total_cost_components.append(...) of min_total_cost, in statement order
min_total_cost_members ==
    <<"Penalty_Costs", "Total_Generation_Cost", "Total_Startup_Cost", "Total_Shutdown_Cost">>

\* generic_add_model_components registers the penalty cost expression it is
\* given; frequency_response then appends the partial penalty costs
frequency_response_members ==
    <<"Frequency_Response_Penalty_Costs", "Frequency_Response_Partial_Penalty_Costs">>

gen_ret_bin_members == <<"GEN_RET_BIN_OPR_PRDS">>

\* local_capacity_balance appends to no list
local_capacity_balance_members == <<>>

\* min_total_cost with the objective's rule called when it is declared
AddMinTotalCost_reads_at_declaration ==
    /\ Callable
    /\ total_cost_components' = AppendAll(total_cost_components, min_total_cost_members)
    /\ registrations' = registrations \o
          Registered("min_total_cost", "total_cost_components", min_total_cost_members)
    /\ runs' = Ran("min_total_cost")
    /\ Total_Cost' = [sense |-> "minimize", terms |-> resolve(total_cost_components')]
    /\ UNCHANGED <<module, status, notAsmVars, lcParams,
                   Total_Local_Capacity_from_All_Sources_Expression_MW,
                   Local_Capacity_Constraint, Local_Capacity_Shortage_MW,
                   local_capacity_balance_provision_components,
                   capacity_type_operational_period_sets, assembled_after>>

AddMinTotalCost ==
    /\ Callable
    /\ total_cost_components' = AppendAll(total_cost_components, min_total_cost_members)
    /\ registrations' = registrations \o
          Registered("min_total_cost", "total_cost_components", min_total_cost_members)
    /\ runs' = Ran("min_total_cost")
    /\ UNCHANGED <<module, status, notAsmVars, lcParams, asmCons, Local_Capacity_Shortage_MW,
                   local_capacity_balance_provision_components,
                   capacity_type_operational_period_sets, assembled_after>>

AddFrequencyResponse ==
    /\ Callable
    /\ total_cost_components' = AppendAll(total_cost_components, frequency_response_members)
    /\ registrations' = registrations \o
          Registered("frequency_response", "total_cost_components", frequency_response_members)
    /\ runs' = Ran("frequency_response")
    /\ UNCHANGED <<module, status, notAsmVars, lcParams, asmCons, Local_Capacity_Shortage_MW,
                   local_capacity_balance_provision_components,
                   capacity_type_operational_period_sets, assembled_after>>

AddGenRetBin ==
    /\ Callable
    /\ capacity_type_operational_period_sets' =
          AppendAll(capacity_type_operational_period_sets, gen_ret_bin_members)
    /\ registrations' = registrations \o
          Registered("gen_ret_bin", "capacity_type_operational_period_sets", gen_ret_bin_members)
    /\ runs' = Ran("gen_ret_bin")
    /\ UNCHANGED <<module, status, notAsmVars, lcParams, asmCons, Local_Capacity_Shortage_MW,
                   total_cost_components, local_capacity_balance_provision_components,
                   assembled_after>>

AddLocalCapacityBalance ==
    /\ Callable
    /\ total_cost_components' = AppendAll(total_cost_components, local_capacity_balance_members)
    /\ registrations' = registrations \o
          Registered("local_capacity_balance", "total_cost_components",
                     local_capacity_balance_members)
    /\ runs' = Ran("local_capacity_balance")
    /\ UNCHANGED <<module, status, notAsmVars, lcParams, asmCons, Local_Capacity_Shortage_MW,
                   local_capacity_balance_provision_components,
                   capacity_type_operational_period_sets, assembled_after>>

\* a module outside this model contributes an expression to the balance
RegisterProvision ==
    /\ Callable
    /\ \E c \in ProvisionComponents :
          /\ local_capacity_balance_provision_components' =
                append(local_capacity_balance_provision_components, c)
          /\ registrations' = registrations \o
                Registered("provision", "local_capacity_balance_provision_components", <<c>>)
    /\ runs' = Ran("provision")
    /\ UNCHANGED <<module, status, notAsmVars, lcParams, asmCons, Local_Capacity_Shortage_MW,
                   total_cost_components, capacity_type_operational_period_sets,
                   assembled_after>>

----------------------------------------------------------------------------
(* Objective and local capacity balance: rules *)

\* sum(getattr(mod, c) for c in d.total_cost_components): the summed names
total_cost_rule == resolve(total_cost_components)

\* sum(getattr(mod, component)[z, p] for component in
\* getattr(d, local_capacity_balance_provision_components)): the summed terms
total_local_capacity_rule_first_only(z, p) ==
    LET members == resolve(local_capacity_balance_provision_components)
    IN  [k \in 1..(IF members = <<>> THEN 0 ELSE 1) |-> <<members[k], z, p>>]

total_local_capacity_rule(z, p) ==
    LET members == resolve(local_capacity_balance_provision_components)
    IN  [k \in 1..Len(members) |-> <<members[k], z, p>>]

\* A generated balance constraint is recorded by the indices of its terms,
\* meaning
\*   Total_Local_Capacity_from_All_Sources_Expression_MW[total]
\*     + sum of Local_Capacity_Shortage_MW over shortage
\*     >= local_capacity_requirement_mw[requirement]
local_capacity_requirement_rule_no_shortage(z, p) ==
    [kind |-> "Constraint", total |-> <<z, p>>, shortage |-> {},
     requirement |-> <<z, p>>]

local_capacity_requirement_rule(z, p) ==
    [kind |-> "Constraint", total |-> <<z, p>>, shortage |-> {<<z, p>>},
     requirement |-> <<z, p>>]

\* value of a sum of provision terms
RECURSIVE TermsValue(_)
TermsValue(terms) ==
    IF terms = <<>> THEN 0 ELSE provision[Head(terms)] + TermsValue(Tail(terms))

\* the balance constraint c for the value short of the shortage variable at
\* the constraint's index
LocalCapacityHolds(c, short) ==
    TermsValue(Total_Local_Capacity_from_All_Sources_Expression_MW[c.total])
        + (IF c.shortage = {} THEN 0 ELSE short)
      >= local_capacity_requirement_mw[c.requirement]

----------------------------------------------------------------------------
(* Objective and local capacity balance: assembly *)

LOCAL_CAPACITY_ZONES == {"z1"}

\* candidate inputs: the requirement by <<zone, period>> and the values of
\* the provision components by <<component, zone, period>>
LocalCapacityInputs ==
    {[requirement |-> [zp \in LOCAL_CAPACITY_ZONES \X (1..2) |-> 10],
      provision |-> [czp \in ProvisionComponents \X LOCAL_CAPACITY_ZONES \X (1..2) |->
                        IF czp[1] = "Local_Capacity_Contribution_MW" THEN 10 ELSE 0]],
     [requirement |-> [zp \in LOCAL_CAPACITY_ZONES \X (1..2) |-> IF zp[2] = 1 THEN 0 ELSE 20],
      provision |-> [czp \in ProvisionComponents \X LOCAL_CAPACITY_ZONES \X (1..2) |->
                        IF czp[1] = "Local_Capacity_Contribution_MW" THEN 5 ELSE 0 - 5]]}

\* candidate values of the shortage variable; the largest covers the largest
\* requirement against the smallest total provision
ShortageGrid == {0 - 5, 0, 10, 20 + 5 * MaxCalls}

InitOneRun ==
    /\ module = "assembly"
    /\ status = "declared"
    /\ PERIODS = 1..2
    /\ NoRetirement
    /\ NoTimepoints
    /\ NoStorage
    /\ NoDR
    /\ total_cost_components = <<>>
    /\ local_capacity_balance_provision_components = <<>>
    /\ capacity_type_operational_period_sets = <<>>
    /\ registrations = <<>>
    /\ runs = [mod \in Modules |-> 0]
    /\ assembled_after = 0
    /\ Total_Cost = Empty
    /\ LOCAL_CAPACITY_ZONE_PERIODS_WITH_REQUIREMENT = LOCAL_CAPACITY_ZONES \X PERIODS
    /\ \E input \in LocalCapacityInputs :
          /\ local_capacity_requirement_mw = input.requirement
          /\ provision = input.provision
    /\ Total_Local_Capacity_from_All_Sources_Expression_MW = Empty
    /\ Local_Capacity_Constraint = Empty
    /\ Local_Capacity_Shortage_MW = Empty
    /\ NoInputFiles

InitAsm == InitOneRun /\ NoOtherRun

\* The abstract model is constructed once: every declared component calls
\* its rule, and the rules read the lists of d as they stand.
create_instance ==
    /\ module = "assembly"
    /\ status = "declared"
    /\ runs["min_total_cost"] > 0 \/ runs["local_capacity_balance"] > 0
    /\ Total_Cost' = IF runs["min_total_cost"] > 0
                     THEN [sense |-> "minimize", terms |-> total_cost_rule]
                     ELSE Empty
    /\ IF runs["local_capacity_balance"] > 0
       THEN /\ Total_Local_Capacity_from_All_Sources_Expression_MW' =
                  [zp \in LOCAL_CAPACITY_ZONE_PERIODS_WITH_REQUIREMENT |->
                      total_local_capacity_rule(zp[1], zp[2])]
            /\ Local_Capacity_Constraint' =
                  [zp \in LOCAL_CAPACITY_ZONE_PERIODS_WITH_REQUIREMENT |->
                      local_capacity_requirement_rule(zp[1], zp[2])]
       ELSE UNCHANGED <<Total_Local_Capacity_from_All_Sources_Expression_MW,
                        Local_Capacity_Constraint>>
    /\ assembled_after' = Len(registrations)
    /\ status' = "built"
    /\ UNCHANGED <<module, notAsmVars, lcParams, Local_Capacity_Shortage_MW,
                   total_cost_components, local_capacity_balance_provision_components,
                   capacity_type_operational_period_sets, registrations, runs>>

\* The solver returns any shortage within its domain that satisfies every
\* balance constraint.
SolveLocalCapacity ==
    /\ module = "assembly"
    /\ status = "built"
    /\ Local_Capacity_Constraint # Empty
    /\ \E short \in [LOCAL_CAPACITY_ZONE_PERIODS_WITH_REQUIREMENT -> ShortageGrid] :
          /\ \A zp \in DOMAIN short : NonNegativeReals(short[zp])
          /\ \A zp \in DOMAIN Local_Capacity_Constraint :
                LocalCapacityHolds(Local_Capacity_Constraint[zp], short[zp])
          /\ Local_Capacity_Shortage_MW' = short
    /\ status' = "solved"
    /\ UNCHANGED <<module, notAsmVars, regVars, lcParams, asmCons>>

NextAsm ==
    \/ AddMinTotalCost
    \/ AddFrequencyResponse
    \/ AddGenRetBin
    \/ AddLocalCapacityBalance
    \/ RegisterProvision
    \/ create_instance
    \/ SolveLocalCapacity

SpecAsm == InitAsm /\ [][NextAsm]_vars

----------------------------------------------------------------------------
(* Objective and local capacity balance: properties *)

\* the members appended to the list called name, in the order of the appends
\* recorded in regs
RECURSIVE RegisteredInto(_, _)
RegisteredInto(regs, name) ==
    IF regs = <<>> THEN <<>>
    ELSE IF Head(regs).list = name
         THEN <<Head(regs).member>> \o RegisteredInto(Tail(regs), name)
         ELSE RegisteredInto(Tail(regs), name)

\* the appends made before the model was constructed
RegisteredBeforeAssembly == SubSeq(registrations, 1, assembled_after)

\* C14: the total local capacity of a zone and period sums exactly the
\* components that were in local_capacity_balance_provision_components when
\* the expression was built, one term for each append, and nothing else.
C14_TotalIsSumOfRegistry ==
    Total_Local_Capacity_from_All_Sources_Expression_MW # Empty =>
        LET members == RegisteredInto(RegisteredBeforeAssembly,
                                      "local_capacity_balance_provision_components")
        IN  \A zp \in LOCAL_CAPACITY_ZONE_PERIODS_WITH_REQUIREMENT :
                /\ zp \in DOMAIN Total_Local_Capacity_from_All_Sources_Expression_MW
                /\ Total_Local_Capacity_from_All_Sources_Expression_MW[zp] =
                      [k \in 1..Len(members) |-> <<members[k], zp[1], zp[2]>>]

\* the expression is built from a list of two components or more, and a
\* component registered afterwards is in the list but not in the expression
C14_Witness ==
    /\ Total_Local_Capacity_from_All_Sources_Expression_MW # Empty
    /\ \E zp \in DOMAIN Total_Local_Capacity_from_All_Sources_Expression_MW :
          /\ Len(Total_Local_Capacity_from_All_Sources_Expression_MW[zp]) >= 2
          /\ Len(local_capacity_balance_provision_components) >
                Len(Total_Local_Capacity_from_All_Sources_Expression_MW[zp])

\* C15: the shortage variable is nonnegative and is a term of every balance
\* constraint, so whatever the components in the list (none included) and
\* whatever the requirement, some nonnegative shortage satisfies the
\* constraint.
C15_ShortageKeepsFeasible ==
    /\ Local_Capacity_Constraint # Empty =>
          \A zp \in LOCAL_CAPACITY_ZONE_PERIODS_WITH_REQUIREMENT :
              /\ zp \in DOMAIN Local_Capacity_Constraint
              /\ Local_Capacity_Constraint[zp].shortage = {zp}
              /\ \E short \in ShortageGrid :
                    /\ NonNegativeReals(short)
                    /\ LocalCapacityHolds(Local_Capacity_Constraint[zp], short)
    /\ Local_Capacity_Shortage_MW # Empty =>
          \A zp \in DOMAIN Local_Capacity_Shortage_MW :
              NonNegativeReals(Local_Capacity_Shortage_MW[zp])

\* a solved balance with no component in the list and a positive requirement
\* that the shortage alone covers
C15_Witness ==
    /\ module = "assembly"
    /\ status = "solved"
    /\ \E zp \in DOMAIN Local_Capacity_Constraint :
          /\ Total_Local_Capacity_from_All_Sources_Expression_MW[zp] = <<>>
          /\ local_capacity_requirement_mw[zp] > 0
          /\ Local_Capacity_Shortage_MW[zp] >= local_capacity_requirement_mw[zp]

\* a solved balance whose components sum to less than nothing
C15_WitnessNegativeTotal ==
    /\ module = "assembly"
    /\ status = "solved"
    /\ \E zp \in DOMAIN Local_Capacity_Constraint :
          /\ TermsValue(Total_Local_Capacity_from_All_Sources_Expression_MW[zp]) < 0
          /\ Local_Capacity_Shortage_MW[zp] > local_capacity_requirement_mw[zp]

\* C16: once local_capacity_balance's add_model_components has run, the
\* module has appended the shortage penalty cost to total_cost_components.
C16_ShortagePenaltyRegistered ==
    (module = "assembly" /\ runs["local_capacity_balance"] > 0) =>
        \E k \in 1..Len(registrations) :
            /\ registrations[k].by = "local_capacity_balance"
            /\ registrations[k].list = "total_cost_components"

\* what the module does instead: it leaves every list of d as it found it
C16_RegistersNothing ==
    \A k \in 1..Len(registrations) : registrations[k].by # "local_capacity_balance"

\* the three lists of d by name
Lists ==
    [total_cost_components |-> total_cost_components,
     local_capacity_balance_provision_components |->
         local_capacity_balance_provision_components,
     capacity_type_operational_period_sets |-> capacity_type_operational_period_sets]

\* number of times member occurs in list
Occurrences(list, member) == Cardinality({k \in 1..Len(list) : list[k] = member})

\* C17: the objective Total_Cost is resolved once, when the model is
\* constructed: it has each member of total_cost_components registered before
\* then exactly once, the four names of the objective module among them, and
\* no name registered afterwards.
C17_EachMemberOnce ==
    Total_Cost # Empty =>
        /\ Total_Cost.sense = "minimize"
        /\ \A k \in 1..Len(RegisteredBeforeAssembly) :
              RegisteredBeforeAssembly[k].list = "total_cost_components" =>
                  Occurrences(Total_Cost.terms, RegisteredBeforeAssembly[k].member) = 1
        /\ \A k \in 1..Len(min_total_cost_members) :
              Occurrences(Total_Cost.terms, min_total_cost_members[k]) = 1
        /\ \A k \in 1..Len(Total_Cost.terms) :
              \E j \in 1..assembled_after :
                  /\ registrations[j].list = "total_cost_components"
                  /\ registrations[j].member = Total_Cost.terms[k]

\* what holds of the objective: one term for each append to
\* total_cost_components made before the model was constructed, in order,
\* and no term for a later append
C17_ObjectiveIsSumOfRegistered ==
    Total_Cost # Empty =>
        /\ Total_Cost.sense = "minimize"
        /\ Total_Cost.terms =
              RegisteredInto(RegisteredBeforeAssembly, "total_cost_components")
        /\ \A k \in 1..Len(min_total_cost_members) :
              Occurrences(Total_Cost.terms, min_total_cost_members[k]) >= 1

\* an objective built after min_total_cost and frequency_response have run,
\* with a member registered afterwards that is not one of its terms
C17_LateRegistration ==
    /\ Total_Cost # Empty
    /\ Occurrences(Total_Cost.terms, "Frequency_Response_Partial_Penalty_Costs") = 1
    /\ Len(total_cost_components) > Len(Total_Cost.terms)

\* C18: no list of d ever holds the same member name twice, whatever modules
\* have been called and however often.
C18_NoDuplicateMembers ==
    \A name \in DOMAIN Lists :
        \A j, k \in 1..Len(Lists[name]) : Lists[name][j] = Lists[name][k] => j = k

\* what the lists hold instead: every append made, duplicates included
C18_EveryAppendKept ==
    module = "assembly" =>
        \A name \in DOMAIN Lists : Lists[name] = RegisteredInto(registrations, name)

\* C19: once the model has been constructed from the lists, no list changes:
\* every append was made before construction.
C19_FrozenAfterAssembly ==
    (module = "assembly" /\ status \in {"built", "solved"}) =>
        /\ Len(registrations) = assembled_after
        /\ \A name \in DOMAIN Lists :
              Lists[name] = RegisteredInto(RegisteredBeforeAssembly, name)

\* C20: a list is resolved in the order of the appends to it, the same
\* sequence each time it is resolved, and the objective and the balance built
\* from it have their terms in that order.
C20_InsertionOrder ==
    module = "assembly" =>
        /\ \A name \in DOMAIN Lists :
              /\ resolve(Lists[name]) = RegisteredInto(registrations, name)
              /\ resolve(Lists[name]) = resolve(resolve(Lists[name]))
        /\ Total_Cost # Empty =>
              Total_Cost.terms =
                  RegisteredInto(RegisteredBeforeAssembly, "total_cost_components")
        /\ Total_Local_Capacity_from_All_Sources_Expression_MW # Empty =>
              \A zp \in DOMAIN Total_Local_Capacity_from_All_Sources_Expression_MW :
                  LET members == RegisteredInto(RegisteredBeforeAssembly,
                                     "local_capacity_balance_provision_components")
                      terms == Total_Local_Capacity_from_All_Sources_Expression_MW[zp]
                  IN  /\ Len(terms) = Len(members)
                      /\ \A k \in 1..Len(terms) : terms[k][1] = members[k]

\* frequency_response is loaded before min_total_cost and two different
\* components are registered into the balance: both orders are those of the
\* appends
C20_Witness ==
    /\ Total_Cost # Empty
    /\ Len(Total_Cost.terms) = 6
    /\ Total_Cost.terms[1] = "Frequency_Response_Penalty_Costs"
    /\ Total_Cost.terms[3] = "Penalty_Costs"
    /\ Total_Local_Capacity_from_All_Sources_Expression_MW # Empty
    /\ \E zp \in DOMAIN Total_Local_Capacity_from_All_Sources_Expression_MW :
          LET terms == Total_Local_Capacity_from_All_Sources_Expression_MW[zp]
          IN  /\ Len(terms) = 2
              /\ terms[1][1] = "Local_Capacity_Imports_MW"
              /\ terms[2][1] = "Local_Capacity_Contribution_MW"

----------------------------------------------------------------------------
(* gen_ret_bin: load_module_specific_data *)

\* the float nan that pandas reads from an empty field of a row
NaN == 0 - 1

CapacityTypes == {"gen_ret_bin", "gen_spec"}

\* rows of specified_generation_period_params.tab, complete or with the
\* capacity field left empty: <<specified_capacity_mw, fixed_cost_per_mw_yr>>
InputRows == {<<100, 10>>, <<NaN, 10>>}

\* projects.tab rows whose capacity_type is gen_ret_bin
determine_gen_ret_bin_projects ==
    {g \in DOMAIN projects_tab : projects_tab[g] = "gen_ret_bin"}

\* the rows of the period params file that belong to a gen_ret_bin project
generator_period_list ==
    {gp \in DOMAIN specified_generation_period_params_tab :
        gp[1] \in determine_gen_ret_bin_projects}

\* gen_ret_bin projects without any row in the period params file
diff == determine_gen_ret_bin_projects \ {gp[1] : gp \in generator_period_list}

\* the three values determine_period_params returns
determine_period_params ==
    [GEN_RET_BIN_OPR_PRDS |-> generator_period_list,
     gen_ret_bin_capacity_mw |->
         [gp \in generator_period_list |-> specified_generation_period_params_tab[gp][1]],
     gen_ret_bin_fixed_cost_per_mw_yr |->
         [gp \in generator_period_list |-> specified_generation_period_params_tab[gp][2]]]

InitLoad ==
    /\ module = "gen_ret_bin"
    /\ status = "declared"
    /\ PERIODS = AllPeriods
    /\ NoRetirement
    /\ NoTimepoints
    /\ NoStorage
    /\ NoDR
    /\ NoAssembly
    /\ projects_tab \in [RetProjects -> CapacityTypes]
    /\ \E rows \in SUBSET (RetProjects \X PERIODS) :
          specified_generation_period_params_tab \in [rows -> InputRows]
    /\ data_portal = Empty
    /\ FUEL_PROJECTS = {}
    /\ raised = Empty

\* determine_period_params raises before anything is stored in the data portal
load_module_specific_data ==
    /\ module = "gen_ret_bin"
    /\ status = "declared"
    /\ projects_tab # Empty
    /\ IF diff # {}
       THEN /\ status' = "error"
            /\ raised' = [type |-> "ValueError", projects |-> diff, periods |-> {}]
            /\ UNCHANGED data_portal
       ELSE /\ status' = "loaded"
            /\ data_portal' = determine_period_params
            /\ UNCHANGED raised
    /\ UNCHANGED <<module, retVars, tmpVars, capVars, stoVars, drVars, asmVars, otherVars,
                   projects_tab, specified_generation_period_params_tab, FUEL_PROJECTS>>

NextLoad == load_module_specific_data

SpecLoad == InitLoad /\ [][NextLoad]_vars

\* project g has a row for period p with a field left empty
LacksData(g, p) ==
    /\ <<g, p>> \in DOMAIN specified_generation_period_params_tab
    /\ \E k \in 1..2 : specified_generation_period_params_tab[<<g, p>>][k] = NaN

\* C22: loading fails whenever a gen_ret_bin project lacks capacity or fixed
\* cost data for one of its operational periods or has no row at all, the
\* error names the project and the period, and nothing is stored in the data
\* portal when loading fails.
C22_MissingInputFails ==
    (module = "gen_ret_bin" /\ status \in {"loaded", "error"} /\ projects_tab # Empty) =>
        /\ \A g \in determine_gen_ret_bin_projects :
              (diff # {} \/ \E p \in PERIODS : LacksData(g, p)) => status = "error"
        /\ status = "error" =>
              /\ raised.projects # {}
              /\ raised.periods # {}
              /\ data_portal = Empty

\* what loading does: it fails exactly when a gen_ret_bin project has no row
\* at all, names those projects and no period, and stores nothing then
C22_FailsWithoutAnyRow ==
    (module = "gen_ret_bin" /\ status \in {"loaded", "error"} /\ projects_tab # Empty) =>
        /\ status = "error" <=> diff # {}
        /\ status = "error" =>
              /\ raised = [type |-> "ValueError", projects |-> diff, periods |-> {}]
              /\ data_portal = Empty
        /\ status = "loaded" =>
              /\ raised = Empty
              /\ data_portal = determine_period_params

\* a project with a row whose capacity is empty is loaded without error
C22_LoadedWithEmptyField ==
    /\ module = "gen_ret_bin"
    /\ status = "loaded"
    /\ projects_tab # Empty
    /\ \E gp \in data_portal.GEN_RET_BIN_OPR_PRDS :
          data_portal.gen_ret_bin_capacity_mw[gp] = NaN

----------------------------------------------------------------------------
(* dr: auxiliary cost methods *)

\* An exception is recorded by its type and the project names its message
\* contains.  The messages a caller may hand to fuel_burn_rule:
ErrorMessages == {[names |-> {}]} \cup {[names |-> {p}] : p \in DR}

fuel_burn_rule(p, tmp, error_message) ==
    IF p \in FUEL_PROJECTS
    THEN [type |-> "ValueError", names |-> {p}]
    ELSE [type |-> "ValueError", names |-> error_message.names]

startup_shutdown_rule(p, tmp) == [type |-> "ValueError", names |-> {p}]

InitAux ==
    /\ module = "dr"
    /\ status = "declared"
    /\ InitTimepoints
    /\ NoRetirement
    /\ NoStorage
    /\ NoAssembly
    /\ \E rows \in CapacityMaps :
          /\ Capacity_MW = [pp \in DR \X PERIODS |-> rows[pp[2]][1]]
          /\ Energy_Capacity_MWh = [pp \in DR \X PERIODS |-> rows[pp[2]][2]]
    /\ NoDR
    /\ projects_tab = Empty
    /\ specified_generation_period_params_tab = Empty
    /\ data_portal = Empty
    /\ FUEL_PROJECTS \in SUBSET DR
    /\ raised = Empty

\* a call of fuel_burn_rule ends with the exception it raises
CallFuelBurn ==
    /\ module = "dr"
    /\ status = "declared"
    /\ \E i \in DR_OPR_TMPS, error_message \in ErrorMessages :
          raised' = [in |-> "fuel_burn_rule", args |-> i,
                     exception |-> fuel_burn_rule(i[1], i[2], error_message)]
    /\ status' = "error"
    /\ UNCHANGED <<module, retVars, stoVars, asmVars, tmpVars, capVars, drVars, otherVars>>
    /\ UNCHANGED <<projects_tab, specified_generation_period_params_tab, data_portal,
                   FUEL_PROJECTS>>

\* a call of startup_shutdown_rule ends with the exception it raises
CallStartupShutdown ==
    /\ module = "dr"
    /\ status = "declared"
    /\ \E i \in DR_OPR_TMPS :
          raised' = [in |-> "startup_shutdown_rule", args |-> i,
                     exception |-> startup_shutdown_rule(i[1], i[2])]
    /\ status' = "error"
    /\ UNCHANGED <<module, retVars, stoVars, asmVars, tmpVars, capVars, drVars, otherVars>>
    /\ UNCHANGED <<projects_tab, specified_generation_period_params_tab, data_portal,
                   FUEL_PROJECTS>>

NextAux == CallFuelBurn \/ CallStartupShutdown

SpecAux == InitAux /\ [][NextAux]_vars

\* C23: every call of fuel_burn_rule and of startup_shutdown_rule ends with
\* an error, and the error's message contains the name of the project the
\* rule was called for, in every branch.
C23_RaisesNamingProject ==
    (module = "dr" /\ status = "error" /\ raised # Empty) =>
        /\ raised.exception.type = "ValueError"
        /\ raised.args[1] \in raised.exception.names

\* what the rules do: every call ends with a ValueError; the message names
\* the project in startup_shutdown_rule and in the fuel project branch of
\* fuel_burn_rule, and is the caller's message otherwise
C23_AlwaysRaises ==
    (module = "dr" /\ status = "error" /\ raised # Empty) =>
        /\ raised.exception.type = "ValueError"
        /\ (raised.in = "startup_shutdown_rule" \/ raised.args[1] \in FUEL_PROJECTS) =>
              raised.exception.names = {raised.args[1]}
        /\ (raised.in = "fuel_burn_rule" /\ raised.args[1] \notin FUEL_PROJECTS) =>
              raised.exception.names \in {m.names : m \in ErrorMessages}

\* fuel_burn_rule raised for a fuel project and names it
C23_FuelProjectNamed ==
    /\ module = "dr"
    /\ raised # Empty
    /\ raised.in = "fuel_burn_rule"
    /\ raised.args[1] \in FUEL_PROJECTS
    /\ raised.exception.names = {raised.args[1]}

----------------------------------------------------------------------------
(* Two runs in one process, each with its own d *)

ListNames ==
    {"total_cost_components", "local_capacity_balance_provision_components",
     "capacity_type_operational_period_sets"}

InitTwoRuns ==
    /\ InitOneRun
    /\ other_d = [lists |-> [name \in ListNames |-> <<>>], calls |-> 0]
    /\ other_registrations = <<>>

\* a module of the other run may be called
OtherCallable ==
    /\ module = "assembly"
    /\ status = "declared"
    /\ other_d # Empty
    /\ Calls(Modules) + OtherCalls < MaxCalls

\* add_model_components of a module called with other_d: the appends go to
\* the list of the d that was passed
OtherAppended(name, members) ==
    [other_d EXCEPT !.lists[name] = AppendAll(@, members), !.calls = @ + 1]

OtherAddMinTotalCost ==
    /\ OtherCallable
    /\ other_d' = OtherAppended("total_cost_components", min_total_cost_members)
    /\ other_registrations' = other_registrations \o
          Registered("min_total_cost", "total_cost_components", min_total_cost_members)
    /\ UNCHANGED <<module, status, retVars, tmpVars, capVars, stoVars, drVars, asmVars,
                   ioVars>>

OtherAddFrequencyResponse ==
    /\ OtherCallable
    /\ other_d' = OtherAppended("total_cost_components", frequency_response_members)
    /\ other_registrations' = other_registrations \o
          Registered("frequency_response", "total_cost_components", frequency_response_members)
    /\ UNCHANGED <<module, status, retVars, tmpVars, capVars, stoVars, drVars, asmVars,
                   ioVars>>

\* gen_ret_bin appending to a list kept at module level instead
OtherAddGenRetBin_module_level_list ==
    /\ OtherCallable
    /\ capacity_type_operational_period_sets' =
          AppendAll(capacity_type_operational_period_sets, gen_ret_bin_members)
    /\ other_d' = [other_d EXCEPT !.lists["capacity_type_operational_period_sets"] =
                                      capacity_type_operational_period_sets',
                                  !.calls = @ + 1]
    /\ other_registrations' = other_registrations \o
          Registered("gen_ret_bin", "capacity_type_operational_period_sets",
                     gen_ret_bin_members)
    /\ UNCHANGED <<module, status, retVars, tmpVars, capVars, stoVars, drVars, ioVars,
                   lcParams, asmCons, Local_Capacity_Shortage_MW, total_cost_components,
                   local_capacity_balance_provision_components, registrations, runs,
                   assembled_after>>

OtherAddGenRetBin ==
    /\ OtherCallable
    /\ other_d' = OtherAppended("capacity_type_operational_period_sets", gen_ret_bin_members)
    /\ other_registrations' = other_registrations \o
          Registered("gen_ret_bin", "capacity_type_operational_period_sets",
                     gen_ret_bin_members)
    /\ UNCHANGED <<module, status, retVars, tmpVars, capVars, stoVars, drVars, asmVars,
                   ioVars>>

NextTwoRuns ==
    \/ AddMinTotalCost
    \/ AddFrequencyResponse
    \/ AddGenRetBin
    \/ OtherAddMinTotalCost
    \/ OtherAddFrequencyResponse
    \/ OtherAddGenRetBin

SpecTwoRuns == InitTwoRuns /\ [][NextTwoRuns]_vars

\* C24: under every interleaving of the calls of two runs, the lists of each
\* run's d hold exactly the appends of that run's own calls, in order, as
\* they would if the run were alone.
C24_NoInterference ==
    (module = "assembly" /\ other_d # Empty) =>
        \A name \in ListNames :
            /\ Lists[name] = RegisteredInto(registrations, name)
            /\ other_d.lists[name] = RegisteredInto(other_registrations, name)

\* both runs have called min_total_cost and gen_ret_bin in the same process
C24_Witness ==
    /\ module = "assembly"
    /\ other_d # Empty
    /\ runs["min_total_cost"] = 1
    /\ runs["gen_ret_bin"] = 1
    /\ Len(total_cost_components) = 4
    /\ Len(other_d.lists["total_cost_components"]) = 4
    /\ Len(other_d.lists["capacity_type_operational_period_sets"]) = 1
    /\ Len(capacity_type_operational_period_sets) = 1

----------------------------------------------------------------------------
(* storage_generic with reserve variables registered *)

\* a temporal index of one horizon with two timepoints
ReserveTimepoints == {1, 2}

\* <<headroom list, footroom list>> after the reserve modules have registered
\* two upward and one downward reserve variable for the project
RegisteredReserves ==
    <<<<"LF_Reserves_Up_Provide_MW", "Regulation_Up_Provide_MW">>,
      <<"LF_Reserves_Down_Provide_MW">>>>

InitRes ==
    /\ module = "storage_generic"
    /\ status = "declared"
    /\ horizon = [t \in ReserveTimepoints |-> 1]
    /\ boundary \in [{1} -> {"circular", "linear"}]
    /\ period = horizon
    /\ PERIODS = {1}
    /\ number_of_hours_in_timepoint \in {[t \in ReserveTimepoints |-> 1],
                                        [t \in ReserveTimepoints |-> 2]}
    /\ NoRetirement
    /\ NoDR
    /\ NoAssembly
    /\ NoInputFiles
    /\ \E rows \in CapacityMaps :
          /\ Capacity_MW = [sp \in STORAGE_GENERIC_PROJECTS \X PERIODS |-> rows[sp[2]][1]]
          /\ Energy_Capacity_MWh = [sp \in STORAGE_GENERIC_PROJECTS \X PERIODS |-> rows[sp[2]][2]]
    /\ \E rows \in [STORAGE_GENERIC_PROJECTS -> EfficiencyRows] :
          /\ storage_generic_charging_efficiency = [s \in DOMAIN rows |-> rows[s][1]]
          /\ storage_generic_discharging_efficiency = [s \in DOMAIN rows |-> rows[s][2]]
    /\ headroom_variables = [s \in STORAGE_GENERIC_PROJECTS |-> RegisteredReserves[1]]
    /\ footroom_variables = [s \in STORAGE_GENERIC_PROJECTS |-> RegisteredReserves[2]]
    /\ NoStorageComponents

SpecRes == InitRes /\ [][NextSto]_vars

\* the sum of the values of the reserve variables in names at index i
Reserves(names, i) == ReserveSum(names, i, Reserve_Provision_MW)

\* C25: in every solution, for every project and timepoint, net power plus
\* the sum of the reserve variables in headroom_variables[s] is at most
\* Capacity_MW, and net power minus the sum of the reserve variables in
\* footroom_variables[s] is at least -Capacity_MW.
C25_ReservesWithinPower ==
    StoSolved =>
        \A i \in StoIdx :
            LET net == Generic_Storage_Discharge_MW[i] - Generic_Storage_Charge_MW[i]
                cap == Capacity_MW[<<i[1], period[i[2]]>>]
            IN  /\ net + Reserves(headroom_variables[i[1]], i) <= cap
                /\ net - Reserves(footroom_variables[i[1]], i) >= 0 - cap

\* a solution that provides upward and downward reserves in the same
\* timepoint, the project having two upward reserve variables
C25_Witness ==
    /\ StoSolved
    /\ \E i \in StoIdx :
          /\ Len(headroom_variables[i[1]]) = 2
          /\ Reserves(headroom_variables[i[1]], i) > 0
          /\ Reserves(footroom_variables[i[1]], i) > 0

\* a solution whose downward reserves use all the power range left
C25_WitnessFootroom ==
    /\ StoSolved
    /\ \E i \in StoIdx :
          /\ Reserves(footroom_variables[i[1]], i) > 0
          /\ Generic_Storage_Discharge_MW[i] - Generic_Storage_Charge_MW[i]
                - Reserves(footroom_variables[i[1]], i)
                = 0 - Capacity_MW[<<i[1], period[i[2]]>>]

\* the energy in storage at the end of timepoint i[2], scaled as in
\* EndEnergyScaled
EndEnergyAt(i) ==
    EndEnergyScaled([at |-> i, hrs |-> i[2]], Starting_Energy_in_Generic_Storage_MWh,
                    Generic_Storage_Charge_MW, Generic_Storage_Discharge_MW)

\* C26: in every solution the footroom reserves of a project times hours
\* times charging efficiency are at most the energy capacity minus the energy
\* at the end of the timepoint, and the headroom reserves times hours over
\* discharging efficiency are at most the energy at the end of the timepoint.
C26_ReservesWithinEnergy ==
    StoSolved =>
        \A i \in StoIdx :
            LET ce == storage_generic_charging_efficiency[i[1]]
                de == storage_generic_discharging_efficiency[i[1]]
                h  == number_of_hours_in_timepoint[i[2]]
            IN  /\ Reserves(footroom_variables[i[1]], i) * h * ce[1] * de[1]
                     <= Energy_Capacity_MWh[<<i[1], period[i[2]]>>] * ce[2] * de[1]
                          - EndEnergyAt(i)
                /\ Reserves(headroom_variables[i[1]], i) * h * de[2] * ce[2]
                     <= EndEnergyAt(i)

\* what holds: the headroom half, and the footroom rule as written, which
\* bounds the headroom reserves by Capacity_MW less the energy at the end
C26_HeadroomEnergy ==
    StoSolved =>
        \A i \in StoIdx :
            LET ce == storage_generic_charging_efficiency[i[1]]
                de == storage_generic_discharging_efficiency[i[1]]
                h  == number_of_hours_in_timepoint[i[2]]
            IN  /\ Reserves(headroom_variables[i[1]], i) * h * de[2] * ce[2]
                     <= EndEnergyAt(i)
                /\ Reserves(headroom_variables[i[1]], i) * h * ce[1] * de[1]
                     <= Capacity_MW[<<i[1], period[i[2]]>>] * ce[2] * de[1]
                          - EndEnergyAt(i)

----------------------------------------------------------------------------
(* gen_ret_bin: operational periods with a gap *)

\* the retire-forever rule refers to GenRetBin_Retire[g, prev_period[p]]
NeedsPrevious(g, p) ==
    /\ <<g, p>> \in GEN_RET_BIN_OPR_PRDS
    /\ p # first_period
    /\ p # gen_ret_bin_first_period(g)

\* C27: for whatever operational periods the projects are given, building
\* the retire-forever constraint does not fail: wherever the rule does not
\* skip, (g, prev_period[p]) is in GEN_RET_BIN_OPR_PRDS.
C27_PreviousPeriodOperational ==
    (module = "gen_ret_bin" /\ projects_tab = Empty
       /\ status \in {"built", "solved", "error"}) =>
        /\ status # "error"
        /\ \A gp \in GEN_RET_BIN_OPR_PRDS :
              NeedsPrevious(gp[1], gp[2]) =>
                  <<gp[1], prev_period(gp[2])>> \in GEN_RET_BIN_OPR_PRDS

\* what holds: construction fails exactly when some project is operational
\* in a period, not its first, whose previous period is not operational
C27_FailsExactlyOnGap ==
    (module = "gen_ret_bin" /\ projects_tab = Empty
       /\ status \in {"built", "solved", "error"}) =>
        (status = "error" <=>
            \E gp \in GEN_RET_BIN_OPR_PRDS :
                /\ NeedsPrevious(gp[1], gp[2])
                /\ <<gp[1], prev_period(gp[2])>> \notin GEN_RET_BIN_OPR_PRDS)

----------------------------------------------------------------------------
(* dr: projects operational in some of the periods *)

InitPartlyOperational ==
    /\ module = "dr"
    /\ status = "declared"
    /\ InitTimepoints
    /\ NoRetirement
    /\ NoStorage
    /\ NoAssembly
    /\ NoInputFiles
    /\ \E rows \in CapacityMaps, operational \in (SUBSET PERIODS) \ {{}} :
          /\ Capacity_MW = [pp \in DR \X operational |-> rows[pp[2]][1]]
          /\ Energy_Capacity_MWh = [pp \in DR \X operational |-> rows[pp[2]][2]]
    /\ NoDR

SpecPartlyOperational == InitPartlyOperational /\ [][NextDR]_vars

\* C28: for every project and horizon of DR_OPR_HRZS every timepoint of the
\* horizon is an operational timepoint of the project and the period of the
\* horizon's first timepoint is one of its operational periods, so building
\* the horizon constraints refers to no variable or capacity that does not
\* exist.
C28_HorizonTimepointsOperational ==
    module = "dr" =>
        /\ status # "error"
        /\ \A ph \in DR_OPR_HRZS :
              /\ \A tmp \in TIMEPOINTS_ON_HORIZON(ph[2]) : <<ph[1], tmp>> \in DR_OPR_TMPS
              /\ <<ph[1], period[first_horizon_timepoint(ph[2])]>>
                    \in DOMAIN Energy_Capacity_MWh
        /\ \A ph \in DOMAIN DR_Energy_Balance_Constraint :
              DR_Energy_Balance_Constraint[ph].up \subseteq DR_OPR_TMPS
        /\ \A ph \in DOMAIN DR_Energy_Budget_Constraint :
              /\ \A t \in DR_Energy_Budget_Constraint[ph].terms : t.at \in DR_OPR_TMPS
              /\ DR_Energy_Budget_Constraint[ph].of \in DOMAIN Energy_Capacity_MWh

\* a project that is operational in one of two periods, with both horizon
\* constraints built for the horizon of that period only
C28_Witness ==
    /\ module = "dr"
    /\ Cardinality(PERIODS) = 2
    /\ Cardinality(DR_OPR_HRZS) = 1
    /\ DOMAIN DR_Energy_Balance_Constraint = DR_OPR_HRZS
    /\ DOMAIN DR_Energy_Budget_Constraint = DR_OPR_HRZS
    /\ DR_OPR_TMPS # DR \X (DOMAIN horizon)

----------------------------------------------------------------------------
(* storage_generic: energy over a horizon and at the end of a timepoint *)

\* sum over the timepoints T of v[s, tmp] * hours[tmp]
RECURSIVE EnergySum(_, _, _)
EnergySum(v, s, T) ==
    IF T = {} THEN 0
    ELSE LET tmp == CHOOSE t \in T : TRUE
         IN  v[<<s, tmp>>] * number_of_hours_in_timepoint[tmp] + EnergySum(v, s, T \ {tmp})

\* C29: in every solution, on every circular horizon, the energy charged
\* into storage over the horizon (after charging losses) equals the energy
\* taken out of storage (before discharging losses).
C29_CircularNetZero ==
    StoSolved =>
        \A s \in STORAGE_GENERIC_PROJECTS : \A h \in HORIZONS :
            boundary[h] = "circular" =>
                LET ce == storage_generic_charging_efficiency[s]
                    de == storage_generic_discharging_efficiency[s]
                IN  EnergySum(Generic_Storage_Charge_MW, s, TIMEPOINTS_ON_HORIZON(h))
                        * ce[1] * de[1]
                      = EnergySum(Generic_Storage_Discharge_MW, s, TIMEPOINTS_ON_HORIZON(h))
                        * de[2] * ce[2]

\* a solution that charges and discharges on a circular horizon whose
\* timepoints have different durations, with losses
C29_Witness ==
    /\ StoSolved
    /\ \E s \in STORAGE_GENERIC_PROJECTS : \E h \in HORIZONS :
          /\ boundary[h] = "circular"
          /\ storage_generic_charging_efficiency[s] # <<1, 1>>
          /\ \E t, u \in TIMEPOINTS_ON_HORIZON(h) :
                /\ number_of_hours_in_timepoint[t] # number_of_hours_in_timepoint[u]
                /\ Generic_Storage_Charge_MW[<<s, t>>] > 0
                /\ Generic_Storage_Discharge_MW[<<s, u>>] > 0

\* <<Capacity_MW, Energy_Capacity_MWh>> by period of a project that stores
\* half an hour of its rated power
ShortDurationCapacity == [p \in AllPeriods |-> <<10, 5>>]

InitShortDuration ==
    /\ module = "storage_generic"
    /\ status = "declared"
    /\ InitTimepoints
    /\ NoRetirement
    /\ NoDR
    /\ NoAssembly
    /\ NoInputFiles
    /\ Capacity_MW =
          [sp \in STORAGE_GENERIC_PROJECTS \X PERIODS |-> ShortDurationCapacity[sp[2]][1]]
    /\ Energy_Capacity_MWh =
          [sp \in STORAGE_GENERIC_PROJECTS \X PERIODS |-> ShortDurationCapacity[sp[2]][2]]
    /\ \E rows \in [STORAGE_GENERIC_PROJECTS -> EfficiencyRows] :
          /\ storage_generic_charging_efficiency = [s \in DOMAIN rows |-> rows[s][1]]
          /\ storage_generic_discharging_efficiency = [s \in DOMAIN rows |-> rows[s][2]]
    /\ \E rows \in [STORAGE_GENERIC_PROJECTS -> ReserveRegistrations] :
          /\ headroom_variables = [s \in DOMAIN rows |-> rows[s][1]]
          /\ footroom_variables = [s \in DOMAIN rows |-> rows[s][2]]
    /\ NoStorageComponents

SpecShortDuration == InitShortDuration /\ [][NextSto]_vars

\* the energy capacity of the period of timepoint i[2], scaled as EndEnergyAt
EnergyCapacityScaled(i) ==
    Energy_Capacity_MWh[<<i[1], period[i[2]]>>]
        * storage_generic_charging_efficiency[i[1]][2]
        * storage_generic_discharging_efficiency[i[1]][1]

\* C30: in every solution the energy in storage at the end of every
\* timepoint, the last timepoint of a linear horizon included, lies between
\* zero and the energy capacity of the timepoint's period.
C30_EndEnergyWithinCapacity ==
    StoSolved =>
        \A i \in StoIdx :
            /\ EndEnergyAt(i) >= 0
            /\ EndEnergyAt(i) <= EnergyCapacityScaled(i)

\* what holds: the energy at the end of a timepoint is never negative, it is
\* within the energy capacity wherever it is the state of charge of a next
\* timepoint, and at the last timepoint of a linear horizon it is within
\* Capacity_MW taken as an energy
C30_EndEnergyAsBuilt ==
    StoSolved =>
        \A i \in StoIdx :
            /\ EndEnergyAt(i) >= 0
            /\ (\E j \in StoIdx : j[1] = i[1] /\ previous_timepoint(j[2]) = i[2]) =>
                  EndEnergyAt(i) <= EnergyCapacityScaled(i)
            /\ EndEnergyAt(i) <= Capacity_MW[<<i[1], period[i[2]]>>]
                                   * storage_generic_charging_efficiency[i[1]][2]
                                   * storage_generic_discharging_efficiency[i[1]][1]

====
